---- MODULE Spec2Model ----
(***************************************************************************)
(* Model of the ambulance route planner's graph engine: the shortest-path  *)
(* functions of app/utils/dijkstra.js and app/utils/bellmanFord.js, the    *)
(* structural analysis of app/page.jsx (degrees, connectivity, Eulerian    *)
(* and Hamiltonian analysis), the caller's choice of algorithm and the     *)
(* graph editor of app/page.jsx (the Home component).                      *)
(*                                                                         *)
(* A snapshot is a pair (nodes, edges): nodes is a sequence of node        *)
(* records, edges a sequence of edge records, both in array order.  The    *)
(* engine functions are operators computed the way the code computes them  *)
(* (array order, stable sort, first match of Array.find, last write of     *)
(* Map.set); an action applies one of them to the current snapshot and     *)
(* stores the record it returns.                                           *)
(***************************************************************************)
EXTENDS Integers, Sequences, FiniteSets, TLC

VARIABLES nodes, edges, startId, endId, called, result, prevEdges, home

vars == <<nodes, edges, startId, endId, called, result, prevEdges, home>>

(***************************************************************************)
(* Bounds of the model.                                                    *)
(***************************************************************************)
MaxNodes == 3
MaxEdges == 3

(***************************************************************************)
(* JavaScript values.  null/undefined ids are one string no node carries;  *)
(* Infinity is a number no sum of the model's weights reaches (the code    *)
(* never adds to Infinity: every addition is guarded by a finiteness test  *)
(* or starts from a settled distance).                                     *)
(***************************************************************************)
NULL == "null"
Infinity == 1000000
NegInfinity == 0 - Infinity

AllIds == <<"A", "B", "C", "D", "E", "F", "G", "H", "I", "J">>

RECURSIVE SeqSum(_)
SeqSum(s) == IF s = <<>> THEN 0 ELSE Head(s) + SeqSum(Tail(s))

NodeIdSet(ns) == {ns[i].id : i \in 1..Len(ns)}

(***************************************************************************)
(* A thrown exception is a record with the single field threw; a returned  *)
(* object is a record with exactly the properties the code sets.           *)
(***************************************************************************)
TypeError == [threw |-> "TypeError"]
Threw(r) == "threw" \in DOMAIN r
Has(r, f) == f \in DOMAIN r

(***************************************************************************)
(* dijkstra.js: the adjacency list of one node, in the order the pushes    *)
(* of lines 22-28 happen (blocked edges skipped, each edge pushed at its   *)
(* from node and then at its to node).                                     *)
(***************************************************************************)
(* mutant of adjacencyOf: the reverse direction of line 26 is not registered *)
RECURSIVE adjacencyOf_directed(_, _, _)
adjacencyOf_directed(v, es, i) ==
  IF i > Len(es) THEN <<>>
  ELSE (IF ~es[i].blocked /\ es[i].from = v
        THEN <<[node |-> es[i].to, weight |-> es[i].weight, edgeId |-> es[i].id]>>
        ELSE <<>>)
       \o adjacencyOf_directed(v, es, i + 1)

RECURSIVE adjacencyOf(_, _, _)
adjacencyOf(v, es, i) ==
  IF i > Len(es) THEN <<>>
  ELSE LET e == es[i]
           fwd == IF ~e.blocked /\ e.from = v
                  THEN <<[node |-> e.to, weight |-> e.weight, edgeId |-> e.id]>>
                  ELSE <<>>
           bwd == IF ~e.blocked /\ e.to = v
                  THEN <<[node |-> e.from, weight |-> e.weight, edgeId |-> e.id]>>
                  ELSE <<>>
       IN fwd \o bwd \o adjacencyOf(v, es, i + 1)

buildGraph(ns, es) == [v \in NodeIdSet(ns) |-> adjacencyOf(v, es, 1)]

(* graph[edge.from].push / graph[edge.to].push on a key the object lacks *)
pushThrows(ns, es) ==
  \E i \in 1..Len(es) :
    /\ ~es[i].blocked
    /\ (es[i].from \notin NodeIdSet(ns) \/ es[i].to \notin NodeIdSet(ns))

(***************************************************************************)
(* pq.sort((a, b) => a.distance - b.distance): a stable sort by distance.  *)
(***************************************************************************)
RECURSIVE insertByDistance(_, _)
insertByDistance(sorted, x) ==
  IF sorted = <<>> THEN <<x>>
  ELSE IF Head(sorted).distance <= x.distance
       THEN <<Head(sorted)>> \o insertByDistance(Tail(sorted), x)
       ELSE <<x>> \o sorted

(* mutant of sortPQ: the queue is served first-in first-out *)
sortPQ_fifo(pq) == pq

RECURSIVE sortPQ(_)
sortPQ(pq) ==
  IF pq = <<>> THEN <<>>
  ELSE insertByDistance(sortPQ(SubSeq(pq, 1, Len(pq) - 1)), pq[Len(pq)])

(* a variant of the forEach that also relaxes neighbours already settled *)
RECURSIVE relaxNeighbors_settledToo(_, _, _, _)
relaxNeighbors_settledToo(adj, i, currentNode, st) ==
  IF i > Len(adj) THEN st
  ELSE LET neighbor == adj[i].node
           newDistance == st.distances[currentNode] + adj[i].weight
       IN IF newDistance < st.distances[neighbor]
          THEN relaxNeighbors_settledToo(adj, i + 1, currentNode,
                 [st EXCEPT !.distances[neighbor] = newDistance,
                            !.previous[neighbor] = currentNode,
                            !.pq = Append(@, [node |-> neighbor,
                                              distance |-> newDistance])])
          ELSE relaxNeighbors_settledToo(adj, i + 1, currentNode, st)

(* dijkstra.js:64-74: the forEach over the neighbours of currentNode *)
RECURSIVE relaxNeighbors(_, _, _, _)
relaxNeighbors(adj, i, currentNode, st) ==
  IF i > Len(adj) THEN st
  ELSE LET neighbor == adj[i].node
           newDistance == st.distances[currentNode] + adj[i].weight
       IN IF neighbor \in st.visited
          THEN relaxNeighbors(adj, i + 1, currentNode, st)
          ELSE IF newDistance < st.distances[neighbor]
               THEN relaxNeighbors(adj, i + 1, currentNode,
                      [st EXCEPT !.distances[neighbor] = newDistance,
                                 !.previous[neighbor] = currentNode,
                                 !.pq = Append(@, [node |-> neighbor,
                                                   distance |-> newDistance])])
               ELSE relaxNeighbors(adj, i + 1, currentNode, st)

(* dijkstra.js:49-75: the while loop over the priority queue *)
RECURSIVE dijkstraLoop(_, _, _)
dijkstraLoop(graph, end, st) ==
  IF st.pq = <<>> THEN st
  ELSE LET sorted == sortPQ(st.pq)
           currentNode == Head(sorted).node
           currentDistance == Head(sorted).distance
           popped == [st EXCEPT !.pq = Tail(sorted)]
       IN IF currentNode \in st.visited THEN dijkstraLoop(graph, end, popped)
          ELSE LET st1 == [popped EXCEPT !.visited = @ \cup {currentNode}]
               IN IF currentNode = end THEN st1
                  ELSE IF currentDistance > st1.distances[currentNode]
                       THEN dijkstraLoop(graph, end, st1)
                       ELSE dijkstraLoop(graph, end,
                              relaxNeighbors(graph[currentNode], 1, currentNode, st1))

(***************************************************************************)
(* dijkstra.js:82-87: follow previous[] back from the destination.  The    *)
(* loop has no guard of its own; a chain longer than the node count has    *)
(* revisited a node and would never end, which the model reports as        *)
(* diverges.                                                               *)
(***************************************************************************)
RECURSIVE walkBack(_, _, _, _)
walkBack(previous, current, path, fuel) ==
  IF current = NULL THEN [diverges |-> FALSE, path |-> path]
  ELSE IF fuel = 0 THEN [diverges |-> TRUE, path |-> path]
  ELSE walkBack(previous, previous[current], <<current>> \o path, fuel - 1)

(***************************************************************************)
(* edges.find(e => (e.from === from && e.to === to) ||                     *)
(*                 (e.to === from && e.from === to)):                      *)
(* the index of the first edge joining the pair, blocked or not; 0 for     *)
(* undefined.                                                              *)
(***************************************************************************)
RECURSIVE findEdge(_, _, _, _)
findEdge(es, i, from, to) ==
  IF i > Len(es) THEN 0
  ELSE IF (es[i].from = from /\ es[i].to = to) \/ (es[i].to = from /\ es[i].from = to)
       THEN i
       ELSE findEdge(es, i + 1, from, to)

(* dijkstra.js:90-105: one step per consecutive pair whose edge is found *)
RECURSIVE dijkstraSteps(_, _, _)
dijkstraSteps(es, path, i) ==
  IF i > Len(path) - 1 THEN <<>>
  ELSE LET k == findEdge(es, 1, path[i], path[i + 1])
       IN (IF k = 0 THEN <<>>
           ELSE <<[from |-> path[i], to |-> path[i + 1],
                   cost |-> es[k].weight, edgeId |-> es[k].id]>>)
          \o dijkstraSteps(es, path, i + 1)

dijkstraNotFound == [path |-> <<>>, totalCost |-> 0, steps |-> <<>>, found |-> FALSE]

NonTermination == [threw |-> "NonTermination"]

(* dijkstra.js:11-113 *)
dijkstra(ns, es, start, end) ==
  IF start = NULL \/ end = NULL \/ start = end THEN dijkstraNotFound
  ELSE IF pushThrows(ns, es) THEN TypeError
  ELSE IF start \notin NodeIdSet(ns) \/ end \notin NodeIdSet(ns) THEN dijkstraNotFound
  ELSE
    LET graph == buildGraph(ns, es)
        st0 == [distances |-> [v \in NodeIdSet(ns) |-> IF v = start THEN 0 ELSE Infinity],
                previous  |-> [v \in NodeIdSet(ns) |-> NULL],
                visited   |-> {},
                pq        |-> <<[node |-> start, distance |-> 0]>>]
        st == dijkstraLoop(graph, end, st0)
    IN IF st.distances[end] = Infinity THEN dijkstraNotFound
       ELSE LET back == walkBack(st.previous, end, <<>>, Len(ns))
            IN IF back.diverges THEN NonTermination
               ELSE [path      |-> back.path,
                     totalCost |-> st.distances[end],
                     steps     |-> dijkstraSteps(es, back.path, 1),
                     found     |-> TRUE]

(* dijkstra.js:120-122 *)
hasNegativeWeights(es) == \E i \in 1..Len(es) : ~es[i].blocked /\ es[i].weight < 0

(***************************************************************************)
(* bellmanFord.js:12-247 (the first definition of the file).               *)
(***************************************************************************)
bfRecord(path, totalCost, steps, found, hasNegativeCycle) ==
  [path |-> path, totalCost |-> totalCost, steps |-> steps, found |-> found,
   hasNegativeCycle |-> hasNegativeCycle]

bfError(totalCost, hasNegativeCycle, error) ==
  [path |-> <<>>, totalCost |-> totalCost, steps |-> <<>>, found |-> FALSE,
   hasNegativeCycle |-> hasNegativeCycle, error |-> error]

(* a variant that keeps the forward copy of every unblocked edge only *)
RECURSIVE bidirectional_forwardOnly(_, _)
bidirectional_forwardOnly(es, i) ==
  IF i > Len(es) THEN <<>>
  ELSE (IF es[i].blocked THEN <<>>
        ELSE <<[from |-> es[i].from, to |-> es[i].to, weight |-> es[i].weight, id |-> es[i].id]>>)
       \o bidirectional_forwardOnly(es, i + 1)

(* bellmanFord.js:71-91: forward then backward copy of every unblocked edge *)
RECURSIVE bidirectional(_, _)
bidirectional(es, i) ==
  IF i > Len(es) THEN <<>>
  ELSE (IF es[i].blocked THEN <<>>
        ELSE <<[from |-> es[i].from, to |-> es[i].to, weight |-> es[i].weight, id |-> es[i].id],
               [from |-> es[i].to, to |-> es[i].from, weight |-> es[i].weight, id |-> es[i].id]>>)
       \o bidirectional(es, i + 1)

(***************************************************************************)
(* The test of lines 118-120 and 140-142.  distances[x] of an id that is   *)
(* no node is undefined: undefined !== Infinity holds, the sum is NaN and  *)
(* every comparison with NaN or undefined is false.                        *)
(***************************************************************************)
canRelax(distances, e) ==
  /\ e.from \in DOMAIN distances
  /\ e.to \in DOMAIN distances
  /\ distances[e.from] # Infinity
  /\ distances[e.from] + e.weight < distances[e.to]

(* bellmanFord.js:114-126: one pass over bidirectionalEdges *)
RECURSIVE relaxPass(_, _, _)
relaxPass(bes, i, st) ==
  IF i > Len(bes) THEN st
  ELSE IF canRelax(st.distances, bes[i])
       THEN relaxPass(bes, i + 1,
              [distances |-> [st.distances EXCEPT ![bes[i].to] =
                                st.distances[bes[i].from] + bes[i].weight],
               previous  |-> [st.previous EXCEPT ![bes[i].to] = bes[i].from],
               updated   |-> TRUE])
       ELSE relaxPass(bes, i + 1, st)

(* a variant of relaxLoop that makes a single pass over the edges *)
relaxLoop_singlePass(bes, iteration, nodeCount, st) ==
  relaxPass(bes, 1, [st EXCEPT !.updated = FALSE])

(* bellmanFord.js:111-132: at most nodeCount - 1 passes, stopping after a pass without update *)
RECURSIVE relaxLoop(_, _, _, _)
relaxLoop(bes, iteration, nodeCount, st) ==
  IF ~(iteration < nodeCount - 1) THEN st
  ELSE LET after == relaxPass(bes, 1, [st EXCEPT !.updated = FALSE])
       IN IF ~after.updated THEN after
          ELSE relaxLoop(bes, iteration + 1, nodeCount, after)

(* bellmanFord.js:135-147 *)
stillRelaxable(bes, distances) ==
  {bes[i].to : i \in {j \in 1..Len(bes) : canRelax(distances, bes[j])}}

(* bellmanFord.js:153-158: one propagation pass *)
RECURSIVE taintPass(_, _, _)
taintPass(bes, i, tainted) ==
  IF i > Len(bes) THEN tainted
  ELSE IF bes[i].from \in tainted
       THEN taintPass(bes, i + 1, tainted \cup {bes[i].to})
       ELSE taintPass(bes, i + 1, tainted)

(* mutant of taintLoop: the affected set is not propagated *)
taintLoop_noPropagation(bes, i, nodeCount, tainted) == tainted

(* bellmanFord.js:152-159: nodeCount propagation passes *)
RECURSIVE taintLoop(_, _, _, _)
taintLoop(bes, i, nodeCount, tainted) ==
  IF ~(i < nodeCount) THEN tainted
  ELSE taintLoop(bes, i + 1, nodeCount, taintPass(bes, 1, tainted))

(***************************************************************************)
(* bellmanFord.js:93-96 and 224-225: edgeMap.get(`${from}-${to}`) is the   *)
(* last unblocked edge that was stored under that key (Map.set             *)
(* overwrites); 0 for undefined.                                           *)
(***************************************************************************)
edgeKey(from, to) == from \o "-" \o to

RECURSIVE edgeMapGet(_, _, _)
edgeMapGet(es, i, key) ==
  IF i = 0 THEN 0
  ELSE IF ~es[i].blocked /\ (edgeKey(es[i].from, es[i].to) = key
                             \/ edgeKey(es[i].to, es[i].from) = key)
       THEN i
       ELSE edgeMapGet(es, i - 1, key)

(* bellmanFord.js:220-238 *)
RECURSIVE bellmanFordSteps(_, _, _)
bellmanFordSteps(es, path, i) ==
  IF i > Len(path) - 1 THEN <<>>
  ELSE LET k == edgeMapGet(es, Len(es), edgeKey(path[i], path[i + 1]))
       IN (IF k = 0 THEN <<>>
           ELSE <<[from |-> path[i], to |-> path[i + 1],
                   cost |-> es[k].weight, edgeId |-> es[k].id]>>)
          \o bellmanFordSteps(es, path, i + 1)

(* bellmanFord.js:186-206: follow previous[] back, stopping at a revisited node *)
RECURSIVE walkBackGuarded(_, _, _, _)
walkBackGuarded(previous, current, path, visited) ==
  IF current = NULL THEN [cycle |-> FALSE, path |-> path]
  ELSE IF current \in visited THEN [cycle |-> TRUE, path |-> path]
  ELSE walkBackGuarded(previous, previous[current], <<current>> \o path,
                       visited \cup {current})

bellmanFord(ns, es, start, end) ==
  IF Len(ns) = 0
  THEN bfError(0, FALSE, "Invalid input: nodes and edges are required")
  ELSE IF start = NULL \/ end = NULL
  THEN bfError(0, FALSE, "Start and end node IDs are required")
  ELSE IF start = end
  THEN bfRecord(<<start>>, 0, <<>>, TRUE, FALSE)
  ELSE IF start \notin NodeIdSet(ns) \/ end \notin NodeIdSet(ns)
  THEN bfError(0, FALSE, "Start or end node not found in graph")
  ELSE
    LET nodeCount == Len(ns)
        bes == bidirectional(es, 1)
        st0 == [distances |-> [v \in NodeIdSet(ns) |-> IF v = start THEN 0 ELSE Infinity],
                previous  |-> [v \in NodeIdSet(ns) |-> NULL],
                updated   |-> FALSE]
    IN IF Len(bes) = 0
       THEN bfError(0, FALSE, "No active edges in graph")
       ELSE
         LET st == relaxLoop(bes, 0, nodeCount, st0)
             first == stillRelaxable(bes, st.distances)
             nodesInNegativeCycle ==
               IF first # {} THEN taintLoop(bes, 0, nodeCount, first) ELSE first
         IN IF first # {} /\ end \in nodesInNegativeCycle
            THEN bfError(NegInfinity, TRUE,
                         "Destination is affected by a negative weight cycle")
            ELSE IF st.distances[end] = Infinity
            THEN bfRecord(<<>>, 0, <<>>, FALSE, nodesInNegativeCycle # {})
            ELSE
              LET back == walkBackGuarded(st.previous, end, <<>>, {})
              IN IF back.cycle
                 THEN bfError(0, FALSE, "Cycle detected in path reconstruction")
                 ELSE IF Len(back.path) = 0 \/ back.path[1] # start
                         \/ back.path[Len(back.path)] # end
                 THEN bfRecord(<<>>, 0, <<>>, FALSE, nodesInNegativeCycle # {})
                 ELSE bfRecord(back.path, st.distances[end],
                               bellmanFordSteps(es, back.path, 1), TRUE,
                               nodesInNegativeCycle # {})

(***************************************************************************)
(* page.jsx:120-155: with automatic detection the caller runs Bellman-Ford *)
(* when some unblocked edge has negative weight and Dijkstra otherwise.    *)
(***************************************************************************)
selectedAlgorithm(es) == IF hasNegativeWeights(es) THEN "bellman-ford" ELSE "dijkstra"

calculateShortestPath(ns, es, start, end) ==
  IF selectedAlgorithm(es) = "dijkstra"
  THEN dijkstra(ns, es, start, end)
  ELSE bellmanFord(ns, es, start, end)

(***************************************************************************)
(* page.jsx:934-951 calculateDegrees.  degrees is an object: keys holds    *)
(* its keys in insertion order (the order of Object.keys), deg its         *)
(* values.  degrees[x]++ on a key the object lacks stores NaN, and NaN     *)
(* stays NaN.                                                              *)
(***************************************************************************)
NaN == 0 - 1

increment(st, id) ==
  IF id \in DOMAIN st.deg
  THEN [st EXCEPT !.deg[id] = IF @ = NaN THEN NaN ELSE @ + 1]
  ELSE [keys |-> Append(st.keys, id), deg |-> (id :> NaN) @@ st.deg]

(* page.jsx:943-948: one pass of the loop per edge.  When both keys exist    *)
(* the two ++ are plain increments; a missing key goes through increment,  *)
(* which appends it.                                                       *)
RECURSIVE countDegrees(_, _, _)
countDegrees(es, i, st) ==
  IF i > Len(es) THEN st
  ELSE IF es[i].blocked THEN countDegrees(es, i + 1, st)
  ELSE IF {es[i].from, es[i].to} \subseteq DOMAIN st.deg
       THEN countDegrees(es, i + 1,
              [st EXCEPT !.deg[es[i].from] = IF @ = NaN THEN NaN ELSE @ + 1,
                         !.deg[es[i].to]   = IF @ = NaN THEN NaN ELSE @ + 1])
       ELSE countDegrees(es, i + 1, increment(increment(st, es[i].from), es[i].to))

calculateDegrees(ns, es) ==
  countDegrees(es, 1, [keys |-> [i \in 1..Len(ns) |-> ns[i].id],
                       deg  |-> [v \in NodeIdSet(ns) |-> 0]])

(* a variant of the filter that keeps blocked edges as well *)
activeOf_keepBlocked(es) == [k \in 1..Len(es) |-> [es[k] EXCEPT !.blocked = FALSE]]

(* edges.filter(e => !e.blocked) *)
activeOf(es) == SelectSeq(es, LAMBDA e : ~e.blocked)

(* a variant of page.jsx:976-981 without the test of edge.blocked *)
RECURSIVE neighborsOf_ignoringBlocked(_, _, _, _)
neighborsOf_ignoringBlocked(v, es, lo, hi) ==
  IF lo > hi THEN <<>>
  ELSE IF lo = hi
       THEN (IF es[lo].from = v THEN <<es[lo].to>> ELSE <<>>)
            \o (IF es[lo].to = v THEN <<es[lo].from>> ELSE <<>>)
       ELSE neighborsOf_ignoringBlocked(v, es, lo, (lo + hi) \div 2)
            \o neighborsOf_ignoringBlocked(v, es, ((lo + hi) \div 2) + 1, hi)

(* page.jsx:976-981: the neighbour list of one node, in push order: the    *)
(* pushes of edges lo..hi, as those of lo..mid followed by those of        *)
(* mid+1..hi.                                                              *)
RECURSIVE neighborsOf(_, _, _, _)
neighborsOf(v, es, lo, hi) ==
  IF lo > hi THEN <<>>
  ELSE IF lo = hi
       THEN (IF ~es[lo].blocked /\ es[lo].from = v THEN <<es[lo].to>> ELSE <<>>)
            \o (IF ~es[lo].blocked /\ es[lo].to = v THEN <<es[lo].from>> ELSE <<>>)
       ELSE neighborsOf(v, es, lo, (lo + hi) \div 2)
            \o neighborsOf(v, es, ((lo + hi) \div 2) + 1, hi)

(* page.jsx:987-994: dfs(nodeId), returning the visited set it leaves.     *)
(* The forEach continues at position i of graph[nodeId]; positions whose   *)
(* neighbour is already visited do nothing, so the next position that      *)
(* acts is the first one from i on whose neighbour is not visited.         *)
RECURSIVE dfs(_, _, _, _)
dfs(graph, nodeId, i, visited) ==
  LET seen == visited \cup {nodeId}
      neighbors == graph[nodeId]
      unvisited == {k \in i..Len(neighbors) : neighbors[k] \notin seen}
  IN IF unvisited = {} THEN seen
     ELSE LET k == CHOOSE k \in unvisited : \A j \in unvisited : k <= j
          IN dfs(graph, nodeId, k + 1, dfs(graph, neighbors[k], 1, seen))

(* page.jsx:996-1001 *)
RECURSIVE countComponents(_, _, _, _, _)
countComponents(graph, ns, i, visited, components) ==
  IF i > Len(ns) THEN components
  ELSE IF ns[i].id \in visited
       THEN countComponents(graph, ns, i + 1, visited, components)
       ELSE countComponents(graph, ns, i + 1, dfs(graph, ns[i].id, 1, visited),
                            components + 1)

(* page.jsx:961-1007 *)
isGraphConnected(ns, es) ==
  IF Len(ns) = 0 THEN [connected |-> TRUE, components |-> 0]
  ELSE IF Len(ns) = 1 THEN [connected |-> TRUE, components |-> 1]
  ELSE IF pushThrows(ns, es) THEN TypeError
  ELSE LET graph == [v \in NodeIdSet(ns) |-> neighborsOf(v, es, 1, Len(es))]
           components == countComponents(graph, ns, 1, {}, 0)
       IN [connected |-> components = 1, components |-> components]

(* a variant of the parity test of page.jsx:1048 that keeps the even degrees *)
RECURSIVE oddKeys_evenTest(_, _)
oddKeys_evenTest(degrees, i) ==
  IF i > Len(degrees.keys) THEN <<>>
  ELSE LET d == degrees.deg[degrees.keys[i]]
       IN (IF d # NaN /\ d % 2 = 0 THEN <<degrees.keys[i]>> ELSE <<>>)
          \o oddKeys_evenTest(degrees, i + 1)

(* page.jsx:1046-1051: the keys of degrees whose value is odd, in key order *)
RECURSIVE oddKeys(_, _)
oddKeys(degrees, i) ==
  IF i > Len(degrees.keys) THEN <<>>
  ELSE LET d == degrees.deg[degrees.keys[i]]
       IN (IF d # NaN /\ d % 2 = 1 THEN <<degrees.keys[i]>> ELSE <<>>)
          \o oddKeys(degrees, i + 1)

(***************************************************************************)
(* page.jsx:1020-1196 analyzeEulerian.  solvingSteps keeps the step number *)
(* and the title of each entry; the explanation texts are left out.        *)
(***************************************************************************)
solvingStep(step, title) == [step |-> step, title |-> title]

eulerianSteps(connected, oddDegreeCount) ==
  <<solvingStep(1, "Check Graph Connectivity"),
    solvingStep(2, "Calculate Vertex Degrees"),
    solvingStep(3, "Identify Odd-Degree Vertices")>>
  \o (IF ~connected THEN <<solvingStep(4, "Apply Euler's Theorem")>>
      ELSE IF oddDegreeCount = 0
      THEN <<solvingStep(4, "Apply Euler's Theorem (Circuit)"),
             solvingStep(5, "Check for Eulerian Path")>>
      ELSE IF oddDegreeCount = 2
      THEN <<solvingStep(4, "Apply Euler's Theorem (Path)"),
             solvingStep(5, "Check for Eulerian Circuit"),
             solvingStep(6, "Determine Path Endpoints")>>
      ELSE <<solvingStep(4, "Apply Euler's Theorem"),
             solvingStep(5, "Mathematical Proof Why It Fails")>>)

analyzeEulerian(ns, es) ==
  LET activeEdges == activeOf(es)
  IN IF Len(activeEdges) = 0
     THEN [hasEulerianCircuit |-> Len(ns) <= 1,
           hasEulerianPath    |-> Len(ns) <= 1,
           oddDegreeVertices  |-> <<>>,
           oddDegreeCount     |-> 0,
           degrees            |-> calculateDegrees(ns, activeEdges)]
     ELSE
       LET connectivity == isGraphConnected(ns, activeEdges)
           degrees == calculateDegrees(ns, activeEdges)
           oddDegreeVertices == oddKeys(degrees, 1)
           oddDegreeCount == Len(oddDegreeVertices)
       IN IF Threw(connectivity) THEN connectivity
          ELSE [hasEulerianCircuit |-> connectivity.connected /\ oddDegreeCount = 0,
                hasEulerianPath    |-> connectivity.connected /\ oddDegreeCount \in {0, 2},
                oddDegreeVertices  |-> oddDegreeVertices,
                oddDegreeCount     |-> oddDegreeCount,
                degrees            |-> degrees,
                connected          |-> connectivity.connected,
                components         |-> connectivity.components,
                solvingSteps       |-> eulerianSteps(connectivity.connected, oddDegreeCount),
                startEndVertices   |-> IF oddDegreeCount = 2
                                       THEN <<[start |-> oddDegreeVertices[1],
                                               end   |-> oddDegreeVertices[2]]>>
                                       ELSE <<>>]

(***************************************************************************)
(* page.jsx:1213-1613 analyzeHamiltonian.  graph[v] is a Set, modelled by  *)
(* the sequence of its members in insertion order (the order Array.from    *)
(* gives).  A search that finds nothing returns null, modelled by <<>>:    *)
(* the searches run for n >= 3 only, where a found path is not empty.      *)
(***************************************************************************)
RECURSIVE distinct(_, _, _)
distinct(s, i, acc) ==
  IF i > Len(s) THEN acc
  ELSE distinct(s, i + 1,
         IF \E k \in 1..Len(acc) : acc[k] = s[i] THEN acc ELSE Append(acc, s[i]))

has(set, v) == \E k \in 1..Len(set) : set[k] = v

(* page.jsx:1539-1560.  visited holds the members of path throughout, so   *)
(* visited.has is has(path, _).  pathThroughNeighbors is the loop of       *)
(* page.jsx:1548-1554 over positions lo..hi of neighbors: the first        *)
(* position whose call succeeds, found in lo..mid before mid+1..hi.        *)
RECURSIVE hamiltonianPathDFS(_, _, _, _)
RECURSIVE pathThroughNeighbors(_, _, _, _, _, _)
hamiltonianPathDFS(current, graph, path, targetLength) ==
  LET pushed == Append(path, current)
      neighbors == graph[current]
  IN IF Len(pushed) = targetLength THEN pushed
     ELSE pathThroughNeighbors(neighbors, graph, pushed, targetLength, 1, Len(neighbors))

pathThroughNeighbors(neighbors, graph, path, targetLength, lo, hi) ==
  IF lo > hi THEN <<>>
  ELSE IF lo = hi
       THEN IF has(path, neighbors[lo]) THEN <<>>
            ELSE hamiltonianPathDFS(neighbors[lo], graph, path, targetLength)
       ELSE LET found == pathThroughNeighbors(neighbors, graph, path, targetLength,
                                              lo, (lo + hi) \div 2)
            IN IF found # <<>> THEN found
               ELSE pathThroughNeighbors(neighbors, graph, path, targetLength,
                                         ((lo + hi) \div 2) + 1, hi)

(* a variant of page.jsx:1524-1533 that tries the start it is given and no later one *)
pathFrom_firstStartOnly(nodeIds, graph, startIdx) ==
  hamiltonianPathDFS(nodeIds[startIdx], graph, <<>>, Len(nodeIds))

(* page.jsx:1524-1533 *)
RECURSIVE pathFrom(_, _, _)
pathFrom(nodeIds, graph, startIdx) ==
  IF startIdx > Len(nodeIds) THEN <<>>
  ELSE LET found == hamiltonianPathDFS(nodeIds[startIdx], graph, <<>>, Len(nodeIds))
       IN IF found # <<>> THEN found ELSE pathFrom(nodeIds, graph, startIdx + 1)

findHamiltonianPath(ns, graph) ==
  pathFrom([i \in 1..Len(ns) |-> ns[i].id], graph, 1)

(* page.jsx:1587-1613, with circuitThroughNeighbors the loop of            *)
(* page.jsx:1597-1610 over positions lo..hi of neighbors.                  *)
RECURSIVE hamiltonianCircuitDFS(_, _, _, _, _)
RECURSIVE circuitThroughNeighbors(_, _, _, _, _, _, _)
hamiltonianCircuitDFS(start, current, graph, path, targetLength) ==
  LET neighbors == graph[current]
  IN IF Len(path) = targetLength
     THEN IF has(neighbors, start) THEN path ELSE <<>>
     ELSE circuitThroughNeighbors(start, neighbors, graph, path, targetLength,
                                  1, Len(neighbors))

circuitThroughNeighbors(start, neighbors, graph, path, targetLength, lo, hi) ==
  IF lo > hi THEN <<>>
  ELSE IF lo = hi
       THEN IF has(path, neighbors[lo]) THEN <<>>
            ELSE hamiltonianCircuitDFS(start, neighbors[lo], graph,
                                       Append(path, neighbors[lo]), targetLength)
       ELSE LET found == circuitThroughNeighbors(start, neighbors, graph, path,
                                                 targetLength, lo, (lo + hi) \div 2)
            IN IF found # <<>> THEN found
               ELSE circuitThroughNeighbors(start, neighbors, graph, path,
                                            targetLength, ((lo + hi) \div 2) + 1, hi)

findHamiltonianCircuit(ns, graph) ==
  hamiltonianCircuitDFS(ns[1].id, ns[1].id, graph, <<ns[1].id>>, Len(ns))

RECURSIVE minOf(_, _, _)
minOf(degrees, i, m) ==
  IF i > Len(degrees.keys) THEN m
  ELSE LET d == degrees.deg[degrees.keys[i]]
       IN minOf(degrees, i + 1, IF d < m THEN d ELSE m)

(* samplePath is null, an array of ids, or a fixed text *)
nullPath == [kind |-> "null"]
arrayPath(ids) == [kind |-> "array", ids |-> ids]
textPath == [kind |-> "Guaranteed to exist (construction not computed)"]

ConnectivityStep == solvingStep(1, "Check Graph Connectivity")
DiracSteps == <<ConnectivityStep,
                solvingStep(2, "Calculate Vertex Degrees"),
                solvingStep(3, "Check Dirac's Theorem (1952)")>>
OreSteps == Append(DiracSteps, solvingStep(4, "Check Ore's Theorem (1960)"))

(* page.jsx:1424: graphs small enough for the exhaustive search *)
smallGraph_seven(n) == n <= 7

(* a variant of the size test that searches graphs of at most four nodes only *)
smallGraph_upToFour(n) == n <= 4

smallGraph(n) == n <= 8

analyzeHamiltonian(ns, es) ==
  LET activeEdges == activeOf(es)
      n == Len(ns)
  IN IF n = 0
     THEN [hasHamiltonianCircuit |-> TRUE, hasHamiltonianPath |-> TRUE,
           certainty |-> "definite", theoremApplied |-> "Convention",
           samplePath |-> arrayPath(<<>>)]
     ELSE IF n = 1
     THEN [hasHamiltonianCircuit |-> TRUE, hasHamiltonianPath |-> TRUE,
           certainty |-> "definite", theoremApplied |-> "Convention",
           samplePath |-> arrayPath(<<ns[1].id>>)]
     ELSE IF n = 2
     THEN LET hasEdge == \E k \in 1..Len(activeEdges) :
                            \/ activeEdges[k].from = ns[1].id /\ activeEdges[k].to = ns[2].id
                            \/ activeEdges[k].from = ns[2].id /\ activeEdges[k].to = ns[1].id
          IN [hasHamiltonianCircuit |-> FALSE, hasHamiltonianPath |-> hasEdge,
              certainty |-> "definite", theoremApplied |-> "Definition",
              samplePath |-> IF hasEdge THEN arrayPath(<<ns[1].id, ns[2].id>>)
                             ELSE nullPath]
     ELSE IF pushThrows(ns, activeEdges) THEN TypeError
     ELSE
       LET graph == [v \in NodeIdSet(ns) |-> distinct(neighborsOf(v, activeEdges, 1, Len(activeEdges)), 1, <<>>)]
           connectivity == isGraphConnected(ns, activeEdges)
           degrees == calculateDegrees(ns, activeEdges)
           minDegree == minOf(degrees, 1, Infinity)
           diracCondition == 2 * minDegree >= n
           oreConditionSatisfied ==
             \A i \in 1..n : \A j \in (i + 1)..n :
                has(graph[ns[i].id], ns[j].id)
                \/ degrees.deg[ns[i].id] + degrees.deg[ns[j].id] >= n
       IN IF ~connectivity.connected
          THEN [hasHamiltonianCircuit |-> FALSE, hasHamiltonianPath |-> FALSE,
                certainty |-> "definite", theoremApplied |-> "Connectivity requirement",
                degrees |-> degrees, solvingSteps |-> <<ConnectivityStep>>,
                samplePath |-> nullPath]
          ELSE IF diracCondition /\ n >= 3
          THEN [hasHamiltonianCircuit |-> TRUE, hasHamiltonianPath |-> TRUE,
                certainty |-> "definite", theoremApplied |-> "Dirac's Theorem",
                degrees |-> degrees, minDegree |-> minDegree,
                solvingSteps |-> Append(DiracSteps, solvingStep(4, "Final Conclusion")),
                samplePath |-> textPath]
          ELSE IF oreConditionSatisfied /\ n >= 3
          THEN [hasHamiltonianCircuit |-> TRUE, hasHamiltonianPath |-> TRUE,
                certainty |-> "definite", theoremApplied |-> "Ore's Theorem",
                degrees |-> degrees,
                solvingSteps |-> Append(OreSteps, solvingStep(5, "Final Conclusion")),
                samplePath |-> textPath]
          ELSE IF smallGraph(n)
          THEN LET hamiltonianPath == findHamiltonianPath(ns, graph)
                   hamiltonianCircuit == findHamiltonianCircuit(ns, graph)
               IN [hasHamiltonianCircuit |-> hamiltonianCircuit # <<>>,
                   hasHamiltonianPath |-> hamiltonianPath # <<>>,
                   certainty |-> "definite",
                   theoremApplied |-> "Backtracking Algorithm (Exhaustive Search)",
                   degrees |-> degrees,
                   solvingSteps |-> OreSteps \o
                     <<solvingStep(5, "Attempt Exhaustive Backtracking Search"),
                       solvingStep(6, "Backtracking Search Results")>>,
                   samplePath |-> IF hamiltonianCircuit # <<>> THEN arrayPath(hamiltonianCircuit)
                                  ELSE IF hamiltonianPath # <<>> THEN arrayPath(hamiltonianPath)
                                  ELSE nullPath]
          ELSE [hasHamiltonianCircuit |-> "unknown", hasHamiltonianPath |-> "unknown",
                certainty |-> "unknown", theoremApplied |-> "NP-completeness",
                degrees |-> degrees, minDegree |-> minDegree,
                solvingSteps |-> OreSteps \o
                  <<solvingStep(5, "Graph Size Analysis"),
                    solvingStep(6, "NP-Completeness Limitation")>>]

(***************************************************************************)
(* Snapshots.  Node ids are the first ids of AllIds, in array order; edge  *)
(* ids are e1, e2, ... in array order (the editor draws them with uuidv4). *)
(* An edge of a snapshot with fewer than MaxNodes nodes may also name the   *)
(* first id that is no node.  Edges are written with from before to in id  *)
(* order, as the editor and the sample graph write them; the route may     *)
(* cross them either way.                                                  *)
(***************************************************************************)
EdgeIds == <<"e1", "e2", "e3", "e4", "e5", "e6", "e7", "e8", "e9">>
Weights == {0 - 2, 0, 1, 3}

Ids == {AllIds[i] : i \in 1..MaxNodes}

(* the ids an edge of a snapshot with n nodes may name: its nodes and one id more *)
EndpointIds(n) == {AllIds[i] : i \in 1..(IF n < MaxNodes THEN n + 1 ELSE MaxNodes)}
IdIndex(id) == CHOOSE i \in 1..Len(AllIds) : AllIds[i] = id

mkNodes(n) == [i \in 1..n |-> [id |-> AllIds[i], type |-> "normal"]]

EdgeChoices(n) ==
  {c \in [from : EndpointIds(n), to : EndpointIds(n), weight : Weights, blocked : BOOLEAN] :
     IdIndex(c.from) <= IdIndex(c.to)}

withIds(f) ==
  [i \in 1..Len(f) |-> [id |-> EdgeIds[i], from |-> f[i].from, to |-> f[i].to,
                        weight |-> f[i].weight, blocked |-> f[i].blocked]]

NoResult == [none |-> TRUE]

(* the Home component of page.jsx is not rendered: the engine is called directly *)
NotMounted == [mounted |-> FALSE]

(* page.jsx:78-105 initializeSampleGraph *)
sampleNodes == mkNodes(6)

sampleEdge(i, from, to, weight) ==
  [id |-> EdgeIds[i], from |-> from, to |-> to, weight |-> weight, blocked |-> FALSE]

sampleEdges ==
  <<sampleEdge(1, "A", "B", 4), sampleEdge(2, "A", "C", 2), sampleEdge(3, "B", "C", 1),
    sampleEdge(4, "B", "D", 5), sampleEdge(5, "C", "D", 8), sampleEdge(6, "C", "E", 10),
    sampleEdge(7, "D", "E", 2), sampleEdge(8, "D", "F", 6), sampleEdge(9, "E", "F", 3)>>

Init ==
  /\ \/ \E n \in 0..MaxNodes :
          /\ nodes = mkNodes(n)
          /\ \E k \in 0..MaxEdges : \E f \in [1..k -> EdgeChoices(n)] : edges = withIds(f)
     \/ /\ nodes = sampleNodes
        /\ edges = sampleEdges
  /\ startId = NULL
  /\ endId = NULL
  /\ called = "none"
  /\ result = NoResult
  /\ prevEdges = edges
  /\ home = NotMounted

CallIds == Ids \cup NodeIdSet(nodes) \cup {NULL}

CallDijkstra ==
  /\ called = "none"
  /\ \E s \in CallIds, e \in CallIds :
       /\ startId' = s
       /\ endId' = e
       /\ result' = dijkstra(nodes, edges, s, e)
  /\ called' = "dijkstra"
  /\ UNCHANGED <<nodes, edges, prevEdges, home>>

CallBellmanFord ==
  /\ called = "none"
  /\ \E s \in CallIds, e \in CallIds :
       /\ startId' = s
       /\ endId' = e
       /\ result' = bellmanFord(nodes, edges, s, e)
  /\ called' = "bellman-ford"
  /\ UNCHANGED <<nodes, edges, prevEdges, home>>

CallAnalyzeEulerian ==
  /\ called = "none"
  /\ result' = analyzeEulerian(nodes, edges)
  /\ called' = "analyzeEulerian"
  /\ UNCHANGED <<nodes, edges, startId, endId, prevEdges, home>>

CallAnalyzeHamiltonian ==
  /\ called = "none"
  /\ result' = analyzeHamiltonian(nodes, edges)
  /\ called' = "analyzeHamiltonian"
  /\ UNCHANGED <<nodes, edges, startId, endId, prevEdges, home>>

Next ==
  \/ CallDijkstra
  \/ CallBellmanFord
  \/ CallAnalyzeEulerian
  \/ CallAnalyzeHamiltonian

Spec == Init /\ [][Next]_vars

(***************************************************************************)
(* Reference notions the properties are stated with.  They are defined     *)
(* from the snapshot alone, not from the algorithms.                       *)
(***************************************************************************)
ValidRefs(ns, es) ==
  \A i \in 1..Len(es) : es[i].from \in NodeIdSet(ns) /\ es[i].to \in NodeIdSet(ns)

NonNegative(es) == \A i \in 1..Len(es) : es[i].blocked \/ es[i].weight >= 0

Joins(e, a, b) == (e.from = a /\ e.to = b) \/ (e.from = b /\ e.to = a)

Unblocked(es) == {i \in 1..Len(es) : ~es[i].blocked}

(* the ids reachable from the set S over unblocked edges *)
RECURSIVE ReachSet(_, _)
ReachSet(es, S) ==
  LET T == S \cup {es[i].to : i \in {j \in Unblocked(es) : es[j].from \in S}}
             \cup {es[i].from : i \in {j \in Unblocked(es) : es[j].to \in S}}
  IN IF T = S THEN S ELSE ReachSet(es, T)

Reachable(es, a, b) == b \in ReachSet(es, {a})

SetMin(S) == CHOOSE x \in S : \A y \in S : x <= y

(***************************************************************************)
(* The least total weight of a route from cur to target that repeats no    *)
(* node and avoids the nodes of seen; Infinity when there is none.  With   *)
(* non-negative weights no route is cheaper than the cheapest one without  *)
(* a repeated node.                                                        *)
(***************************************************************************)
RECURSIVE MinRoute(_, _, _, _)
MinRoute(es, cur, target, seen) ==
  IF cur = target THEN 0
  ELSE LET out == {i \in Unblocked(es) :
                     \/ es[i].from = cur /\ es[i].to \notin seen
                     \/ es[i].to = cur /\ es[i].from \notin seen}
           other(i) == IF es[i].from = cur THEN es[i].to ELSE es[i].from
           via(i) == LET rest == MinRoute(es, other(i), target, seen \cup {other(i)})
                     IN IF rest = Infinity THEN Infinity ELSE es[i].weight + rest
       IN IF out = {} THEN Infinity ELSE SetMin({via(i) : i \in out})

MinCost(es, a, b) == MinRoute(es, a, b, {a})

(***************************************************************************)
(* The toll scenario of README.md (Example Scenario 3): from a snapshot    *)
(* with positive weights in which the hospital is reachable, the user      *)
(* saves one edge in the edge editor and Bellman-Ford runs on the new      *)
(* snapshot.  prevEdges keeps the edges as they were before the save.      *)
(***************************************************************************)
TollChoices(n) ==
  {c \in EdgeChoices(n) :
     c.weight > 0 /\ c.from \in NodeIdSet(mkNodes(n)) /\ c.to \in NodeIdSet(mkNodes(n))}

(* page.jsx:282-283: edges.map(e => e.id === updatedEdge.id ? updatedEdge : e) *)
saveEdge(es, updatedEdge) ==
  [i \in 1..Len(es) |-> IF es[i].id = updatedEdge.id THEN updatedEdge ELSE es[i]]

InitToll ==
  /\ \E n \in 2..MaxNodes :
       /\ nodes = mkNodes(n)
       /\ \E k \in 1..MaxEdges : \E f \in [1..k -> TollChoices(n)] : edges = withIds(f)
  /\ startId \in NodeIdSet(nodes)
  /\ endId \in NodeIdSet(nodes)
  /\ startId # endId
  /\ Reachable(edges, startId, endId)
  /\ called = "none"
  /\ result = NoResult
  /\ prevEdges = edges
  /\ home = NotMounted

(* EdgeEditorModal handleSave, then page.jsx handleSaveEdge *)
handleSaveEdge ==
  /\ called = "none"
  /\ \E i \in 1..Len(edges), weight \in Weights, blocked \in BOOLEAN :
       edges' = saveEdge(edges, [edges[i] EXCEPT !.weight = weight, !.blocked = blocked])
  /\ prevEdges' = edges
  /\ called' = "handleSaveEdge"
  /\ UNCHANGED <<nodes, startId, endId, result, home>>

RunBellmanFord ==
  /\ called = "handleSaveEdge"
  /\ result' = bellmanFord(nodes, edges, startId, endId)
  /\ called' = "bellman-ford"
  /\ UNCHANGED <<nodes, edges, startId, endId, prevEdges, home>>

NextToll == handleSaveEdge \/ RunBellmanFord

SpecToll == InitToll /\ [][NextToll]_vars

StepCosts(steps) == [i \in 1..Len(steps) |-> steps[i].cost]

RouteCalled == called \in {"dijkstra", "bellman-ford"}

ProperCall ==
  /\ RouteCalled
  /\ ValidRefs(nodes, edges)
  /\ startId \in NodeIdSet(nodes)
  /\ endId \in NodeIdSet(nodes)
  /\ startId # endId

OnSampleGraph == nodes = sampleNodes /\ edges = sampleEdges

(***************************************************************************)
(* C1. Dijkstra optimality: on a snapshot whose unblocked weights are all  *)
(* non-negative (every edge endpoint being a node), for origin and         *)
(* destination two different nodes, dijkstra returns found = true exactly  *)
(* when the destination is reachable over unblocked edges, and then        *)
(* totalCost is the least total weight of a route; on the sample graph     *)
(* from A to F it returns the path A,C,B,D,E,F with cost 13.               *)
(***************************************************************************)
C1_DijkstraOptimal ==
  (ProperCall /\ called = "dijkstra" /\ NonNegative(edges)) =>
     /\ ~Threw(result)
     /\ result.found = Reachable(edges, startId, endId)
     /\ result.found => result.totalCost = MinCost(edges, startId, endId)
     /\ (OnSampleGraph /\ startId = "A" /\ endId = "F") =>
          /\ result.found
          /\ result.path = <<"A", "C", "B", "D", "E", "F">>
          /\ result.totalCost = 13

C1_Witness ==
  /\ called = "dijkstra"
  /\ OnSampleGraph
  /\ startId = "A"
  /\ endId = "F"
  /\ result.found
  /\ result.totalCost = 13

(***************************************************************************)
(* C2. Cost consistency: whenever dijkstra or bellmanFord returns          *)
(* found = true, totalCost is the sum of the costs of the steps and there  *)
(* is one step per consecutive pair of the path.  Stated where both        *)
(* algorithms apply: every edge endpoint a node, no negative weight.       *)
(***************************************************************************)
C2_CostConsistency ==
  (RouteCalled /\ ValidRefs(nodes, edges) /\ NonNegative(edges)
     /\ ~Threw(result) /\ result.found) =>
     /\ result.totalCost = SeqSum(StepCosts(result.steps))
     /\ Len(result.steps) = Len(result.path) - 1

(***************************************************************************)
(* C3. Route validity and blocked-edge exclusion: a found route starts at  *)
(* the origin, ends at the destination, every consecutive pair of its path *)
(* is joined by an unblocked edge, and every step names, by its edgeId, an *)
(* unblocked edge of the snapshot that joins the step's two nodes.  Stated *)
(* where both algorithms apply: every edge endpoint a node, no negative    *)
(* weight.                                                                 *)
(***************************************************************************)
EdgeWithId(es, id) == {i \in 1..Len(es) : es[i].id = id}

C3_RouteValid ==
  (RouteCalled /\ ValidRefs(nodes, edges) /\ NonNegative(edges)
     /\ ~Threw(result) /\ result.found) =>
     /\ Len(result.path) >= 1
     /\ result.path[1] = startId
     /\ result.path[Len(result.path)] = endId
     /\ \A i \in 1..(Len(result.path) - 1) :
          \E j \in Unblocked(edges) : Joins(edges[j], result.path[i], result.path[i + 1])
     /\ \A k \in 1..Len(result.steps) :
          \E j \in EdgeWithId(edges, result.steps[k].edgeId) :
             /\ ~edges[j].blocked
             /\ Joins(edges[j], result.steps[k].from, result.steps[k].to)

(***************************************************************************)
(* C4. Same origin and destination: dijkstra and bellmanFord called with   *)
(* the origin equal to the destination (a node of the snapshot) return     *)
(* found = true, path = [origin], steps = [] and totalCost = 0.            *)
(***************************************************************************)
C4_SameOriginDestination ==
  (RouteCalled /\ ValidRefs(nodes, edges) /\ startId = endId
     /\ startId \in NodeIdSet(nodes)) =>
     /\ ~Threw(result)
     /\ result.found
     /\ result.path = <<startId>>
     /\ result.steps = <<>>
     /\ result.totalCost = 0

(***************************************************************************)
(* C5. Missing node: a call whose origin or destination is an id that no   *)
(* node carries returns found = false with an error indication, so the     *)
(* result differs from the record returned for an unreachable destination. *)
(***************************************************************************)
NoPathRecord(algorithm) ==
  IF algorithm = "dijkstra" THEN dijkstraNotFound
  ELSE bfRecord(<<>>, 0, <<>>, FALSE, FALSE)

C5_MissingNode ==
  (RouteCalled /\ ValidRefs(nodes, edges)
     /\ startId # NULL /\ endId # NULL /\ startId # endId
     /\ (startId \notin NodeIdSet(nodes) \/ endId \notin NodeIdSet(nodes))) =>
     /\ ~Threw(result)
     /\ result.found = FALSE
     /\ Has(result, "error")
     /\ result # NoPathRecord(called)

(***************************************************************************)
(* C6. Negative-cycle detection: when a cycle of unblocked edges with      *)
(* negative total weight is reachable from the origin, bellmanFord returns *)
(* found = false and hasNegativeCycle = true for every destination other   *)
(* than the origin that is reachable from the cycle.  Over undirected      *)
(* edges a closed walk of negative total weight exists through a node      *)
(* exactly when an unblocked edge of negative weight is reachable from it  *)
(* (a negative sum needs a negative edge, and crossing a negative edge     *)
(* forth and back is a closed walk of weight 2w < 0).                      *)
(***************************************************************************)
NegativeEdges(es) == {i \in Unblocked(es) : es[i].weight < 0}

NegativeCycleAffects(es, a, b) ==
  \E i \in NegativeEdges(es) :
     /\ es[i].from \in ReachSet(es, {a})
     /\ b \in ReachSet(es, {es[i].from})

C6_NegativeCycleDetected ==
  (ProperCall /\ called = "bellman-ford"
     /\ NegativeCycleAffects(edges, startId, endId)) =>
     /\ ~Threw(result)
     /\ result.found = FALSE
     /\ result.hasNegativeCycle = TRUE

IsTriangle(es) ==
  /\ Len(es) = 3
  /\ \A i \in 1..3 : ~es[i].blocked
  /\ Joins(es[1], "A", "B") /\ Joins(es[2], "B", "C") /\ Joins(es[3], "A", "C")

C6_Witness ==
  /\ called = "bellman-ford"
  /\ Len(nodes) = 3
  /\ IsTriangle(edges)
  /\ edges[1].weight + edges[2].weight + edges[3].weight < 0
  /\ edges[1].weight > 0
  /\ startId = "A"
  /\ endId = "C"
  /\ result.found = FALSE
  /\ result.hasNegativeCycle = TRUE

(***************************************************************************)
(* C8. NoPath is distinct from a negative cycle: when the destination is   *)
(* not reachable from the origin over unblocked edges, bellmanFord returns *)
(* found = false with hasNegativeCycle = false, whatever negative edges    *)
(* the snapshot holds; hasNegativeCycle = true is returned only for a      *)
(* destination reachable from a negative cycle.                            *)
(***************************************************************************)
C8_NoPathDistinct ==
  (ProperCall /\ called = "bellman-ford") =>
     /\ ~Threw(result)
     /\ ~Reachable(edges, startId, endId) =>
           (result.found = FALSE /\ result.hasNegativeCycle = FALSE)
     /\ result.hasNegativeCycle = TRUE => NegativeCycleAffects(edges, startId, endId)

(***************************************************************************)
(* C9. Symmetry: for two nodes joined by an unblocked edge, the algorithm  *)
(* the caller selects gives the same found flag and the same totalCost     *)
(* from the first to the second as from the second to the first.           *)
(***************************************************************************)
JoinedByUnblocked(es, a, b) == \E i \in Unblocked(es) : Joins(es[i], a, b)

C9_Symmetry ==
  (ProperCall /\ called = selectedAlgorithm(edges)
     /\ JoinedByUnblocked(edges, startId, endId)) =>
     LET back == calculateShortestPath(nodes, edges, endId, startId)
     IN /\ ~Threw(result)
        /\ ~Threw(back)
        /\ result.found = back.found
        /\ result.totalCost = back.totalCost

C9_Witness ==
  /\ ProperCall
  /\ called = selectedAlgorithm(edges)
  /\ JoinedByUnblocked(edges, startId, endId)
  /\ Len(edges) = 3
  /\ result.found
  /\ Len(result.path) = 3
  /\ calculateShortestPath(nodes, edges, endId, startId).totalCost = result.totalCost

(***************************************************************************)
(* C10. The engine never aborts: on every snapshot, also one holding an    *)
(* unblocked edge whose from or to is no node, an entry point returns a    *)
(* result record and raises no error.                                      *)
(***************************************************************************)
C10_NeverAborts ==
  (\/ called \in {"analyzeEulerian", "analyzeHamiltonian"}
   \/ /\ RouteCalled
      /\ called = selectedAlgorithm(edges)
      /\ startId \in NodeIdSet(nodes) /\ endId \in NodeIdSet(nodes)
      /\ startId # endId)
  => ~Threw(result)

(***************************************************************************)
(* C7. Toll semantics: from a snapshot with positive weights in which the  *)
(* destination is reachable, after one unblocked edge has been given a     *)
(* negative weight Bellman-Ford returns found = true with a totalCost not  *)
(* greater than the cost before the change.                                *)
(***************************************************************************)
Positive(es) == \A i \in 1..Len(es) : es[i].weight > 0

TollSaved ==
  /\ Len(prevEdges) = Len(edges)
  /\ Positive(prevEdges)
  /\ Reachable(prevEdges, startId, endId)
  /\ \E i \in 1..Len(edges) :
       /\ ~prevEdges[i].blocked
       /\ edges[i] = [prevEdges[i] EXCEPT !.weight = edges[i].weight]
       /\ edges[i].weight < 0
       /\ \A j \in 1..Len(edges) : j # i => edges[j] = prevEdges[j]

C7_TollReducesCost ==
  (called = "bellman-ford" /\ TollSaved) =>
     /\ ~Threw(result)
     /\ result.found
     /\ result.totalCost <= MinCost(prevEdges, startId, endId)

(***************************************************************************)
(* Blocking an edge in the editor: from a snapshot whose edges all name    *)
(* nodes, with origin and destination set, the user ticks blocked on one   *)
(* unblocked edge in the edge editor and the route is recomputed with the  *)
(* algorithm the auto-detect effect selects.  prevEdges keeps the edges as *)
(* they were before the save.                                              *)
(***************************************************************************)
BlockChoices(n) ==
  {c \in EdgeChoices(n) : c.from \in NodeIdSet(mkNodes(n)) /\ c.to \in NodeIdSet(mkNodes(n))}

InitBlock ==
  /\ \E n \in 2..MaxNodes :
       /\ nodes = mkNodes(n)
       /\ \E k \in 1..MaxEdges : \E f \in [1..k -> BlockChoices(n)] : edges = withIds(f)
  /\ startId \in NodeIdSet(nodes)
  /\ endId \in NodeIdSet(nodes)
  /\ called = "none"
  /\ result = NoResult
  /\ prevEdges = edges
  /\ home = NotMounted

(* EdgeEditorModal handleSave with the blocked box ticked, then page.jsx handleSaveEdge *)
handleBlockEdge ==
  /\ called = "none"
  /\ \E i \in 1..Len(edges) :
       /\ ~edges[i].blocked
       /\ edges' = saveEdge(edges, [edges[i] EXCEPT !.blocked = TRUE])
  /\ prevEdges' = edges
  /\ called' = "handleSaveEdge"
  /\ UNCHANGED <<nodes, startId, endId, result, home>>

RunSelected ==
  /\ called = "handleSaveEdge"
  /\ result' = calculateShortestPath(nodes, edges, startId, endId)
  /\ called' = selectedAlgorithm(edges)
  /\ UNCHANGED <<nodes, edges, startId, endId, prevEdges, home>>

NextBlock == handleBlockEdge \/ RunSelected

SpecBlock == InitBlock /\ [][NextBlock]_vars

(***************************************************************************)
(* C11. Blocking is monotone: after one unblocked edge has been blocked    *)
(* and the route recomputed with the selected algorithm, the new result    *)
(* is not found = true where the result on the snapshot before the change  *)
(* was found = false, and when both are found the new totalCost is not     *)
(* smaller than the old one.                                               *)
(***************************************************************************)
beforeBlock == calculateShortestPath(nodes, prevEdges, startId, endId)

C11_BlockingMonotone ==
  (RouteCalled /\ prevEdges # edges) =>
     /\ ~Threw(result) /\ ~Threw(beforeBlock)
     /\ result.found => beforeBlock.found
     /\ (result.found /\ beforeBlock.found) => result.totalCost >= beforeBlock.totalCost

(***************************************************************************)
(* Snapshots for the structural analysis.  Weights play no part in it, so  *)
(* every edge weighs 1.  Four families, all with edges that name nodes:    *)
(*  - up to MaxMultiNodes nodes: every pair of different nodes is absent,  *)
(*    joined by one unblocked edge, by one blocked edge or by two parallel *)
(*    unblocked edges, and every node has a self-loop or none;             *)
(*  - above that, up to MaxGraphNodes nodes: the same without parallel     *)
(*    edges;                                                               *)
(*  - SimpleNodes nodes: every pair of different nodes is absent or        *)
(*    joined by one unblocked edge;                                        *)
(*  - LargeNodes - 1 and LargeNodes nodes: node i is joined to node j when *)
(*    their distance round the ring of nodes is in a chosen set of         *)
(*    strides, and a chosen set of the first node's edges is blocked.      *)
(* The edge array lists the pairs in id order, or in the opposite order    *)
(* with from and to exchanged.                                             *)
(***************************************************************************)
MaxMultiNodes == 3
MaxGraphNodes == 4
SimpleNodes == 5
LargeNodes == 9

RECURSIVE pairsFrom(_, _, _)
pairsFrom(i, j, n) ==
  IF i > n THEN <<>>
  ELSE IF j > n THEN pairsFrom(i + 1, i + 1, n)
  ELSE <<(<<i, j>>)>> \o pairsFrom(i, j + 1, n)

PairSeq(n) == pairsFrom(1, 1, n)
NonLoopPairs(n) == {p \in (1..n) \X (1..n) : p[1] < p[2]}
LoopPairs(n) == {<<i, i>> : i \in 1..n}

graphEdge(p, copy, blocked) ==
  [id |-> AllIds[p[1]] \o AllIds[p[2]] \o copy, from |-> AllIds[p[1]], to |-> AllIds[p[2]],
   weight |-> 1, blocked |-> blocked]

edgesOfPair(p, state) ==
  IF state = "unblocked" THEN <<graphEdge(p, "1", FALSE)>>
  ELSE IF state = "blocked" THEN <<graphEdge(p, "1", TRUE)>>
  ELSE IF state = "double" THEN <<graphEdge(p, "1", FALSE), graphEdge(p, "2", FALSE)>>
  ELSE <<>>

(* the edges of pairs[lo..hi] in order; the range is halved at each step *)
RECURSIVE edgesOfPairs(_, _, _, _)
edgesOfPairs(pairs, lo, hi, stateOf) ==
  IF lo > hi THEN <<>>
  ELSE IF lo = hi THEN edgesOfPair(pairs[lo], stateOf[pairs[lo]])
  ELSE LET mid == (lo + hi) \div 2
       IN edgesOfPairs(pairs, lo, mid, stateOf) \o edgesOfPairs(pairs, mid + 1, hi, stateOf)

graphEdges(n, stateOf) == edgesOfPairs(PairSeq(n), 1, Len(PairSeq(n)), stateOf)

opposite(es) ==
  [i \in 1..Len(es) |-> [es[Len(es) + 1 - i] EXCEPT !.from = es[Len(es) + 1 - i].to,
                                                    !.to = es[Len(es) + 1 - i].from]]

ringDistance(p, n) ==
  IF p[2] - p[1] <= n - (p[2] - p[1]) THEN p[2] - p[1] ELSE n - (p[2] - p[1])

ringState(n, strides, blockedAtFirst) ==
  [p \in NonLoopPairs(n) \cup LoopPairs(n) |->
     IF p[1] = p[2] \/ ringDistance(p, n) \notin strides THEN "absent"
     ELSE IF p[1] = 1 /\ p[2] \in blockedAtFirst THEN "blocked"
     ELSE "unblocked"]

GraphSnapshots ==
  UNION {
    {graphEdges(n, f @@ g) :
        f \in [NonLoopPairs(n) -> {"absent", "unblocked", "blocked", "double"}],
        g \in [LoopPairs(n) -> {"absent", "unblocked"}]} \X {n} : n \in 0..MaxMultiNodes}
  \cup
  UNION {
    {graphEdges(n, f @@ g) :
        f \in [NonLoopPairs(n) -> {"absent", "unblocked", "blocked"}],
        g \in [LoopPairs(n) -> {"absent", "unblocked"}]} \X {n} :
      n \in (MaxMultiNodes + 1)..MaxGraphNodes}
  \cup
  ({graphEdges(SimpleNodes, f @@ [p \in LoopPairs(SimpleNodes) |-> "absent"]) :
        f \in [NonLoopPairs(SimpleNodes) -> {"absent", "unblocked"}]}
     \X {SimpleNodes})
  \cup
  UNION {
    {graphEdges(n, ringState(n, strides, blockedAtFirst)) :
        strides \in SUBSET (1..(n \div 2)),
        blockedAtFirst \in SUBSET (2..(n \div 2 + 1))} \X {n} :
      n \in {LargeNodes - 1, LargeNodes}}

InitGraph ==
  /\ \E snapshot \in GraphSnapshots :
       /\ nodes = mkNodes(snapshot[2])
       /\ edges \in {snapshot[1], opposite(snapshot[1])}
  /\ startId = NULL
  /\ endId = NULL
  /\ called = "none"
  /\ result = NoResult
  /\ prevEdges = edges
  /\ home = NotMounted

(* page.jsx:1042 and 1271 call isGraphConnected; it tests edge.blocked itself *)
CallIsGraphConnected ==
  /\ called = "none"
  /\ result' = isGraphConnected(nodes, edges)
  /\ called' = "isGraphConnected"
  /\ UNCHANGED <<nodes, edges, startId, endId, prevEdges, home>>

NextGraph == CallAnalyzeEulerian \/ CallAnalyzeHamiltonian \/ CallIsGraphConnected

SpecGraph == InitGraph /\ [][NextGraph]_vars

(***************************************************************************)
(* Reference notions for the structural properties, defined from the       *)
(* snapshot alone.                                                         *)
(***************************************************************************)
(* the number of unblocked edge ends at v: a self-loop counts twice *)
Degree(es, v) ==
  Cardinality({i \in Unblocked(es) : es[i].from = v})
  + Cardinality({i \in Unblocked(es) : es[i].to = v})

OddNodes(ns, es) == {v \in NodeIdSet(ns) : Degree(es, v) % 2 = 1}

Components(ns, es) == {ReachSet(es, {v}) : v \in NodeIdSet(ns)}

ConnectedGraph(ns, es) == Cardinality(Components(ns, es)) <= 1

(***************************************************************************)
(* C12. Euler decision procedure: with no unblocked edge analyzeEulerian   *)
(* gives circuit and path both true exactly when there is at most one      *)
(* node; otherwise both false when the graph over unblocked edges is       *)
(* disconnected; otherwise, with k odd-degree nodes, k = 0 gives both      *)
(* true, k = 2 gives path true and circuit false with the two odd-degree   *)
(* nodes as start and end vertices, any other k gives both false.          *)
(***************************************************************************)
C12_EulerDecision ==
  called = "analyzeEulerian" =>
    /\ ~Threw(result)
    /\ LET k == Cardinality(OddNodes(nodes, edges))
       IN IF Unblocked(edges) = {}
          THEN /\ result.hasEulerianCircuit = (Len(nodes) <= 1)
               /\ result.hasEulerianPath = (Len(nodes) <= 1)
          ELSE IF ~ConnectedGraph(nodes, edges)
          THEN ~result.hasEulerianCircuit /\ ~result.hasEulerianPath
          ELSE IF k = 0
          THEN result.hasEulerianCircuit /\ result.hasEulerianPath
          ELSE IF k = 2
          THEN /\ result.hasEulerianPath /\ ~result.hasEulerianCircuit
               /\ Len(result.startEndVertices) = 1
               /\ {result.startEndVertices[1].start, result.startEndVertices[1].end}
                    = OddNodes(nodes, edges)
               /\ result.startEndVertices[1].start # result.startEndVertices[1].end
          ELSE ~result.hasEulerianCircuit /\ ~result.hasEulerianPath

(* the path graph A-B-C: path only, with endpoints A and C *)
C12_Witness ==
  /\ called = "analyzeEulerian"
  /\ Len(nodes) = 3
  /\ Len(edges) = 2 /\ Unblocked(edges) = {1, 2}
  /\ Joins(edges[1], "A", "B") /\ Joins(edges[2], "B", "C")
  /\ result.hasEulerianPath /\ ~result.hasEulerianCircuit
  /\ result.startEndVertices = <<[start |-> "A", end |-> "C"]>>

(***************************************************************************)
(* A walk from cur that traverses every edge of remaining exactly once,    *)
(* in either direction; a closed one ends at start.                        *)
(***************************************************************************)
RECURSIVE Trail(_, _, _, _, _)
Trail(es, cur, remaining, start, closed) ==
  IF remaining = {} THEN (~closed \/ cur = start)
  ELSE \E i \in remaining :
         \/ es[i].from = cur /\ Trail(es, es[i].to, remaining \ {i}, start, closed)
         \/ es[i].to = cur /\ Trail(es, es[i].from, remaining \ {i}, start, closed)

EulerWalk(ns, es, closed) ==
  \E v \in NodeIdSet(ns) : Trail(es, v, Unblocked(es), v, closed)

(***************************************************************************)
(* C13. Euler correctness against the definition: on a snapshot with at    *)
(* least one unblocked edge, analyzeEulerian reports hasEulerianCircuit    *)
(* exactly when a closed walk traverses every unblocked edge exactly once, *)
(* and hasEulerianPath exactly when some walk does.                        *)
(***************************************************************************)
C13_EulerDefinition ==
  (called = "analyzeEulerian" /\ Unblocked(edges) # {}) =>
    /\ ~Threw(result)
    /\ result.hasEulerianCircuit = EulerWalk(nodes, edges, TRUE)
    /\ result.hasEulerianPath = EulerWalk(nodes, edges, FALSE)

(***************************************************************************)
(* Hamiltonian paths and circuits by their definition: an arrangement of   *)
(* all nodes in which consecutive nodes are joined by an unblocked edge    *)
(* (and, for a circuit, the last is joined to the first).                  *)
(***************************************************************************)
Adjacent(es, a, b) == \E i \in Unblocked(es) : Joins(es[i], a, b)

RECURSIVE Arrange(_, _, _, _, _, _)
Arrange(es, cur, visited, all, start, closed) ==
  IF visited = all THEN (~closed \/ Adjacent(es, cur, start))
  ELSE \E v \in all \ visited :
         Adjacent(es, cur, v) /\ Arrange(es, v, visited \cup {v}, all, start, closed)

HamiltonianPathExists(ns, es) ==
  \E v \in NodeIdSet(ns) : Arrange(es, v, {v}, NodeIdSet(ns), v, FALSE)

HamiltonianCircuitExists(ns, es) ==
  \E v \in NodeIdSet(ns) : Arrange(es, v, {v}, NodeIdSet(ns), v, TRUE)

SimpleGraph(es) ==
  /\ \A i \in Unblocked(es) : es[i].from # es[i].to
  /\ \A i, j \in Unblocked(es) : (i # j) => ~Joins(es[i], es[j].from, es[j].to)

(***************************************************************************)
(* C14. Hamiltonian small-graph exactness: for 3 <= n <= 8 nodes whose     *)
(* unblocked edges form a simple graph, analyzeHamiltonian returns         *)
(* certainty definite, hasHamiltonianCircuit exactly when a Hamiltonian    *)
(* circuit exists and hasHamiltonianPath exactly when a Hamiltonian path   *)
(* exists.                                                                 *)
(***************************************************************************)
C14_HamiltonianExact ==
  (called = "analyzeHamiltonian" /\ Len(nodes) >= 3 /\ Len(nodes) <= 8 /\ SimpleGraph(edges)) =>
    /\ ~Threw(result)
    /\ result.certainty = "definite"
    /\ result.hasHamiltonianCircuit = HamiltonianCircuitExists(nodes, edges)
    /\ result.hasHamiltonianPath = HamiltonianPathExists(nodes, edges)

(* the star on 5 nodes: exhaustive search, both definitely false *)
C14_Witness ==
  /\ called = "analyzeHamiltonian"
  /\ Len(nodes) = 5
  /\ Cardinality(Unblocked(edges)) = 4 /\ SimpleGraph(edges)
  /\ \A i \in Unblocked(edges) : edges[i].from = "A"
  /\ result.theoremApplied = "Backtracking Algorithm (Exhaustive Search)"
  /\ result.certainty = "definite"
  /\ ~result.hasHamiltonianCircuit /\ ~result.hasHamiltonianPath

(***************************************************************************)
(* C15. No false definite claim from the sufficient conditions: for n >= 3 *)
(* nodes, whenever analyzeHamiltonian concludes by Dirac's or by Ore's     *)
(* condition that a circuit exists with certainty definite, a Hamiltonian  *)
(* circuit over the unblocked edges exists.                                *)
(***************************************************************************)
C15_NoFalseDefinite ==
  (/\ called = "analyzeHamiltonian" /\ Len(nodes) >= 3 /\ ~Threw(result)
   /\ result.theoremApplied \in {"Dirac's Theorem", "Ore's Theorem"}
   /\ result.certainty = "definite" /\ result.hasHamiltonianCircuit)
  => HamiltonianCircuitExists(nodes, edges)

(***************************************************************************)
(* C16. Witness for small graphs: for a connected snapshot with            *)
(* 3 <= n <= 8 nodes for which analyzeHamiltonian reports                  *)
(* hasHamiltonianPath = true, samplePath is an array holding every node id *)
(* exactly once, consecutive nodes joined by an unblocked edge, and when   *)
(* hasHamiltonianCircuit = true its last node is joined to its first.  It  *)
(* is stated here for the snapshots whose unblocked edges form a simple    *)
(* graph.                                                                  *)
(***************************************************************************)
ConcretePath(ns, es, samplePath, circuit) ==
  /\ samplePath.kind = "array"
  /\ Len(samplePath.ids) = Len(ns)
  /\ {samplePath.ids[i] : i \in 1..Len(samplePath.ids)} = NodeIdSet(ns)
  /\ \A i \in 1..(Len(samplePath.ids) - 1) :
        Adjacent(es, samplePath.ids[i], samplePath.ids[i + 1])
  /\ circuit => Adjacent(es, samplePath.ids[Len(samplePath.ids)], samplePath.ids[1])

C16_SamplePathConcrete ==
  (/\ called = "analyzeHamiltonian" /\ Len(nodes) >= 3 /\ Len(nodes) <= 8
   /\ ConnectedGraph(nodes, edges) /\ SimpleGraph(edges) /\ ~Threw(result)
   /\ result.certainty = "definite" /\ result.hasHamiltonianPath)
  => ConcretePath(nodes, edges, result.samplePath, result.hasHamiltonianCircuit)

(***************************************************************************)
(* C17. Indeterminate boundary: analyzeHamiltonian returns certainty       *)
(* unknown, with both flags unknown, exactly when n > 8, the graph over    *)
(* unblocked edges is connected and neither Dirac's nor Ore's condition    *)
(* holds; in every other case certainty is definite and both flags are     *)
(* booleans.  The two conditions are taken on the degrees as defined.      *)
(***************************************************************************)
Dirac(ns, es) == \A v \in NodeIdSet(ns) : 2 * Degree(es, v) >= Len(ns)

Ore(ns, es) ==
  \A u, v \in NodeIdSet(ns) :
     (u # v /\ ~Adjacent(es, u, v)) => Degree(es, u) + Degree(es, v) >= Len(ns)

Indeterminate(ns, es) ==
  Len(ns) > 8 /\ ConnectedGraph(ns, es) /\ ~Dirac(ns, es) /\ ~Ore(ns, es)

C17_IndeterminateBoundary ==
  called = "analyzeHamiltonian" =>
    /\ ~Threw(result)
    /\ IF Indeterminate(nodes, edges)
       THEN /\ result.certainty = "unknown"
            /\ result.hasHamiltonianCircuit = "unknown"
            /\ result.hasHamiltonianPath = "unknown"
       ELSE /\ result.certainty = "definite"
            /\ result.hasHamiltonianCircuit \in BOOLEAN
            /\ result.hasHamiltonianPath \in BOOLEAN

C17_Witness ==
  /\ called = "analyzeHamiltonian"
  /\ Len(nodes) = 9
  /\ Indeterminate(nodes, edges)
  /\ result.certainty = "unknown"

(***************************************************************************)
(* C18. Hamiltonian trivial sizes: for 0 nodes circuit and path are true   *)
(* with an empty witness; for 1 node both are true with the node as        *)
(* witness; for 2 nodes circuit is false and path is true exactly when an  *)
(* unblocked edge joins the two nodes, with the two nodes as witness; all  *)
(* three are definite.                                                     *)
(***************************************************************************)
C18_TrivialSizes ==
  (called = "analyzeHamiltonian" /\ Len(nodes) <= 2) =>
    /\ ~Threw(result)
    /\ result.certainty = "definite"
    /\ Len(nodes) = 0 =>
         /\ result.hasHamiltonianCircuit /\ result.hasHamiltonianPath
         /\ result.samplePath = arrayPath(<<>>)
    /\ Len(nodes) = 1 =>
         /\ result.hasHamiltonianCircuit /\ result.hasHamiltonianPath
         /\ result.samplePath = arrayPath(<<nodes[1].id>>)
    /\ Len(nodes) = 2 =>
         /\ ~result.hasHamiltonianCircuit
         /\ result.hasHamiltonianPath = Adjacent(edges, nodes[1].id, nodes[2].id)
         /\ result.hasHamiltonianPath =>
              result.samplePath = arrayPath(<<nodes[1].id, nodes[2].id>>)

(* two nodes joined by a blocked edge only: no path *)
C18_Witness ==
  /\ called = "analyzeHamiltonian"
  /\ Len(nodes) = 2
  /\ \E i \in 1..Len(edges) : edges[i].blocked /\ Joins(edges[i], "A", "B")
  /\ ~Adjacent(edges, "A", "B")
  /\ ~result.hasHamiltonianPath /\ ~result.hasHamiltonianCircuit

(***************************************************************************)
(* C19. Component count: isGraphConnected returns components equal to the  *)
(* number of connected components of the graph over unblocked edges (0     *)
(* for no node, 1 for one node) and connected = true exactly when there is *)
(* no node or one component.                                               *)
(***************************************************************************)
C19_ComponentCount ==
  called = "isGraphConnected" =>
    /\ ~Threw(result)
    /\ result.components = Cardinality(Components(nodes, edges))
    /\ result.connected = (Len(nodes) = 0 \/ Cardinality(Components(nodes, edges)) = 1)

(* a blocked edge between two components leaves them apart *)
C19_Witness ==
  /\ called = "isGraphConnected"
  /\ Len(nodes) = 3
  /\ \E i \in 1..Len(edges) : edges[i].blocked /\ Joins(edges[i], "A", "B")
  /\ Adjacent(edges, "B", "C") /\ ~Reachable(edges, "A", "B")
  /\ result.components = 2 /\ ~result.connected

(***************************************************************************)
(* Calling an entry point twice on one snapshot.  The four functions only  *)
(* read nodes and edges (forEach, filter, find, some, map build new        *)
(* arrays or nothing) and declare every table inside the call, so the      *)
(* arrays the caller holds after a call are the arrays it passed.  called  *)
(* is the caller's position: the entry point it called, then the same      *)
(* with " again" after the second call.                                    *)
(***************************************************************************)
MaxRepeatEdges == 2

EntryPoints == {"dijkstra", "bellman-ford", "analyzeEulerian", "analyzeHamiltonian"}

callEntryPoint(entry, ns, es, start, end) ==
  IF entry = "dijkstra" THEN dijkstra(ns, es, start, end)
  ELSE IF entry = "bellman-ford" THEN bellmanFord(ns, es, start, end)
  ELSE IF entry = "analyzeEulerian" THEN analyzeEulerian(ns, es)
  ELSE analyzeHamiltonian(ns, es)

(* a variant in which the filter of blocked edges acts on the array passed in *)
edgesAfterCall_filteredInPlace(es) == activeOf(es)

edgesAfterCall(es) == es

nodesAfterCall(ns) == ns

InitRepeat ==
  /\ \/ \E n \in 0..MaxNodes :
          /\ nodes = mkNodes(n)
          /\ \E k \in 0..MaxRepeatEdges : \E f \in [1..k -> EdgeChoices(n)] : edges = withIds(f)
     \/ /\ nodes = sampleNodes
        /\ edges = sampleEdges
  /\ startId = NULL
  /\ endId = NULL
  /\ called = "none"
  /\ result = NoResult
  /\ prevEdges = edges
  /\ home = NotMounted

FirstCall ==
  /\ called = "none"
  /\ \E entry \in EntryPoints :
       /\ \E s \in CallIds, e \in CallIds :
            /\ entry \in {"analyzeEulerian", "analyzeHamiltonian"} => s = NULL /\ e = NULL
            /\ startId' = s
            /\ endId' = e
            /\ result' = callEntryPoint(entry, nodes, edges, s, e)
       /\ called' = entry
  /\ nodes' = nodesAfterCall(nodes)
  /\ edges' = edgesAfterCall(edges)
  /\ UNCHANGED <<prevEdges, home>>

SecondCall ==
  /\ called \in EntryPoints
  /\ result' = callEntryPoint(called, nodes, edges, startId, endId)
  /\ called' = called \o " again"
  /\ nodes' = nodesAfterCall(nodes)
  /\ edges' = edgesAfterCall(edges)
  /\ UNCHANGED <<startId, endId, prevEdges, home>>

NextRepeat == FirstCall \/ SecondCall

SpecRepeat == InitRepeat /\ [][NextRepeat]_vars

MaxEdits == 3

(* the weight typed into the edge editor: a toll *)
EditorWeights == {0 - 2}

noRoute == [route |-> "null"]
noDeps == [rendered |-> FALSE]

uuidv4(k) == "e" \o ToString(k)

(* page.jsx:38-61: the initial values of the state hooks *)
useState ==
  [mounted |-> FALSE,
   selectedNodeId |-> NULL, selectedEdgeId |-> NULL,
   ambulanceId |-> NULL, hospitalId |-> NULL,
   algorithm |-> "dijkstra", autoDetectAlgorithm |-> TRUE,
   routeResult |-> noRoute, nodeCounter |-> 1,
   uuids |-> 0, deps |-> noDeps, edits |-> 0]

(* page.jsx:295-307: the page after Clear All, its effects run; the nine   *)
(* edge ids of the sample graph loaded at mount are used up                *)
clearedPage ==
  [useState EXCEPT !.mounted = TRUE, !.uuids = Len(sampleEdges),
                   !.deps = [rendered |-> TRUE,
                             autoDetect |-> [graphHasNegativeWeights |-> FALSE,
                                             autoDetectAlgorithm |-> TRUE],
                             path |-> [nodes |-> <<>>, edges |-> <<>>,
                                       ambulanceId |-> NULL, hospitalId |-> NULL,
                                       algorithm |-> "dijkstra"]]]

(* the page before its first effects (it then loads the sample graph), or  *)
(* the empty graph left by Clear All                                       *)
InitEditor ==
  /\ nodes = <<>>
  /\ edges = <<>>
  /\ startId = NULL
  /\ endId = NULL
  /\ called = "none"
  /\ result = NoResult
  /\ prevEdges = edges
  /\ home \in {useState, clearedPage}

(* page.jsx:78-105 initializeSampleGraph: every load draws nine new edge ids *)
initializeSampleGraph(h) ==
  [nodes |-> sampleNodes,
   edges |-> [i \in 1..Len(sampleEdges) |-> [sampleEdges[i] EXCEPT !.id = uuidv4(h.uuids + i)]],
   home  |-> [h EXCEPT !.ambulanceId = "A", !.hospitalId = "F", !.nodeCounter = 7,
                       !.uuids = @ + Len(sampleEdges)]]

(* page.jsx:121-123, 126-129 and 138: the dependency arrays of the effects *)
autoDetectDeps(h, es) ==
  [graphHasNegativeWeights |-> hasNegativeWeights(es),
   autoDetectAlgorithm |-> h.autoDetectAlgorithm]

(* a variant of the dependency array of page.jsx:138 without algorithm *)
pathDeps_withoutAlgorithm(h, ns, es) ==
  [nodes |-> ns, edges |-> es, ambulanceId |-> h.ambulanceId,
   hospitalId |-> h.hospitalId]

pathDeps(h, ns, es) ==
  [nodes |-> ns, edges |-> es, ambulanceId |-> h.ambulanceId,
   hospitalId |-> h.hospitalId, algorithm |-> h.algorithm]

effectDeps(h, ns, es) ==
  [rendered |-> TRUE, autoDetect |-> autoDetectDeps(h, es), path |-> pathDeps(h, ns, es)]

(* no effect is waiting: the last render's dependencies are the current ones *)
Flushed == home.mounted /\ home.deps = effectDeps(home, nodes, edges)

(* page.jsx:141-155 calculateShortestPath, with the algorithm of the render *)
routeOf(h, ns, es) ==
  IF h.ambulanceId = NULL \/ h.hospitalId = NULL THEN noRoute
  ELSE IF h.algorithm = "dijkstra" THEN dijkstra(ns, es, h.ambulanceId, h.hospitalId)
  ELSE bellmanFord(ns, es, h.ambulanceId, h.hospitalId)

(* page.jsx:64-75 and the first run of the other effects, on the initial   *)
(* render: no saved data, so the sample graph is loaded; the auto-detect   *)
(* effect sets 'dijkstra' and the path effect sets null.                   *)
mount ==
  /\ ~home.mounted /\ home.deps = noDeps
  /\ LET loaded == initializeSampleGraph(home)
     IN /\ nodes' = loaded.nodes
        /\ edges' = loaded.edges
        /\ home' = [loaded.home EXCEPT !.mounted = TRUE,
                                       !.algorithm = "dijkstra",
                                       !.routeResult = noRoute,
                                       !.deps = effectDeps(home, nodes, edges)]
  /\ prevEdges' = edges
  /\ called' = "mount"
  /\ UNCHANGED <<startId, endId, result>>

(* page.jsx:125-138: the effects of one render, in source order.  Both    *)
(* read the state of that render: the path effect computes with the        *)
(* algorithm the render had, and a change of algorithm shows in the next   *)
(* render.  An exception in an effect unmounts the component.              *)
commitEffects ==
  /\ home.mounted /\ ~Flushed
  /\ LET autoDetectRuns == home.deps.autoDetect # autoDetectDeps(home, edges)
         pathRuns == home.deps.path # pathDeps(home, nodes, edges)
         setAlgorithm == IF autoDetectRuns /\ home.autoDetectAlgorithm
                         THEN selectedAlgorithm(edges) ELSE home.algorithm
         route == routeOf(home, nodes, edges)
     IN home' = IF pathRuns /\ Threw(route)
                THEN [home EXCEPT !.mounted = FALSE]
                ELSE [home EXCEPT !.algorithm = setAlgorithm,
                                  !.routeResult = IF pathRuns THEN route ELSE @,
                                  !.deps = effectDeps(home, nodes, edges)]
  /\ UNCHANGED <<nodes, edges, startId, endId, called, result, prevEdges>>

(* a handler runs on a mounted page with no effect waiting *)
Idle == Flushed /\ home.edits < MaxEdits

edited(h) == [h EXCEPT !.edits = @ + 1]

(* page.jsx:158-166 *)
handleAddNode ==
  /\ Idle
  /\ nodes' = Append(nodes, [id |-> "N" \o ToString(home.nodeCounter), type |-> "normal"])
  /\ home' = edited([home EXCEPT !.nodeCounter = @ + 1])
  /\ prevEdges' = edges
  /\ called' = "handleAddNode"
  /\ UNCHANGED <<edges, startId, endId, result>>

(* a variant of the test of page.jsx:179-182 that looks at unblocked edges only *)
edgeExists_unblockedOnly(es, lastNode, secondLastNode) ==
  \E i \in 1..Len(es) :
    /\ ~es[i].blocked
    /\ \/ es[i].from = lastNode.id /\ es[i].to = secondLastNode.id
       \/ es[i].from = secondLastNode.id /\ es[i].to = lastNode.id

(* page.jsx:179-182 *)
edgeExists(es, lastNode, secondLastNode) ==
  \E i \in 1..Len(es) :
    \/ es[i].from = lastNode.id /\ es[i].to = secondLastNode.id
    \/ es[i].from = secondLastNode.id /\ es[i].to = lastNode.id

(* page.jsx:169-198; the button is disabled with fewer than two nodes *)
handleAddEdge ==
  /\ Idle
  /\ Len(nodes) >= 2
  /\ LET lastNode == nodes[Len(nodes)]
         secondLastNode == nodes[Len(nodes) - 1]
         newEdge == [id |-> uuidv4(home.uuids + 1), from |-> secondLastNode.id,
                     to |-> lastNode.id, weight |-> 1, blocked |-> FALSE]
     IN IF edgeExists(edges, lastNode, secondLastNode)
        THEN /\ edges' = edges
             /\ home' = edited(home)
        ELSE /\ edges' = Append(edges, newEdge)
             /\ home' = edited([home EXCEPT !.uuids = @ + 1])
  /\ prevEdges' = edges
  /\ called' = "handleAddEdge"
  /\ UNCHANGED <<nodes, startId, endId, result>>

(* a variant of the filter of page.jsx:208 that keeps the edges arriving at the node *)
withoutEdgesOf_fromOnly(es, selectedNodeId) ==
  SelectSeq(es, LAMBDA e : e.from # selectedNodeId)

(* page.jsx:208 *)
withoutEdgesOf(es, selectedNodeId) ==
  SelectSeq(es, LAMBDA e : e.from # selectedNodeId /\ e.to # selectedNodeId)

(* page.jsx:201-215; the button is disabled without a selected node *)
handleDeleteNode ==
  /\ Idle
  /\ home.selectedNodeId # NULL
  /\ nodes' = SelectSeq(nodes, LAMBDA n : n.id # home.selectedNodeId)
  /\ edges' = withoutEdgesOf(edges, home.selectedNodeId)
  /\ home' = edited([home EXCEPT
                       !.ambulanceId = IF @ = home.selectedNodeId THEN NULL ELSE @,
                       !.hospitalId = IF @ = home.selectedNodeId THEN NULL ELSE @,
                       !.selectedNodeId = NULL])
  /\ prevEdges' = edges
  /\ called' = "handleDeleteNode"
  /\ UNCHANGED <<startId, endId, result>>

(* page.jsx:218-222; the button is disabled without a selected edge *)
handleDeleteEdge ==
  /\ Idle
  /\ home.selectedEdgeId # NULL
  /\ edges' = SelectSeq(edges, LAMBDA e : e.id # home.selectedEdgeId)
  /\ home' = edited([home EXCEPT !.selectedEdgeId = NULL])
  /\ prevEdges' = edges
  /\ called' = "handleDeleteEdge"
  /\ UNCHANGED <<nodes, startId, endId, result>>

(* the values a role select can change to: the empty option (null here)   *)
(* and the node ids, except the value it shows                             *)
selectOptions(shown) == ({NULL} \cup NodeIdSet(nodes)) \ {shown}

(* a variant of the maps of page.jsx:228-237 that leaves the previous holder marked *)
markRole_keepPrevious(ns, holderId, nodeId, role) ==
  [i \in 1..Len(ns) |->
     IF nodeId # NULL /\ ns[i].id = nodeId THEN [ns[i] EXCEPT !.type = role]
     ELSE ns[i]]

(* page.jsx:228 and 233-237 (247 and 252-256): the previous holder becomes *)
(* normal, then the chosen node takes the role; with the empty option      *)
(* only the first happens.                                                 *)
markRole(ns, holderId, nodeId, role) ==
  [i \in 1..Len(ns) |->
     IF ns[i].id = holderId THEN [ns[i] EXCEPT !.type = "normal"]
     ELSE IF nodeId # NULL /\ ns[i].id = nodeId THEN [ns[i] EXCEPT !.type = role]
     ELSE ns[i]]

(* page.jsx:225-241 *)
handleSetAmbulance ==
  /\ Idle
  /\ \E nodeId \in selectOptions(home.ambulanceId) :
       /\ nodes' = markRole(nodes, home.ambulanceId, nodeId, "ambulance")
       /\ home' = edited([home EXCEPT !.ambulanceId = nodeId])
  /\ prevEdges' = edges
  /\ called' = "handleSetAmbulance"
  /\ UNCHANGED <<edges, startId, endId, result>>

(* page.jsx:244-260 *)
handleSetHospital ==
  /\ Idle
  /\ \E nodeId \in selectOptions(home.hospitalId) :
       /\ nodes' = markRole(nodes, home.hospitalId, nodeId, "hospital")
       /\ home' = edited([home EXCEPT !.hospitalId = nodeId])
  /\ prevEdges' = edges
  /\ called' = "handleSetHospital"
  /\ UNCHANGED <<edges, startId, endId, result>>

(* page.jsx:263-266, on a click on a node of the canvas *)
handleNodeSelect ==
  /\ Idle
  /\ \E nodeId \in NodeIdSet(nodes) :
       home' = edited([home EXCEPT !.selectedNodeId = nodeId, !.selectedEdgeId = NULL])
  /\ prevEdges' = edges
  /\ called' = "handleNodeSelect"
  /\ UNCHANGED <<nodes, edges, startId, endId, result>>

(* page.jsx:269-279 on a click on an edge, then either Cancel or          *)
(* EdgeEditorModal handleSave (part_004:27-35) with page.jsx:282-286       *)
handleEdgeSelect ==
  /\ Idle
  /\ \E i \in 1..Len(edges) :
       /\ home' = edited([home EXCEPT !.selectedEdgeId = edges[i].id, !.selectedNodeId = NULL])
       /\ \/ edges' = edges
          \/ \E weight \in EditorWeights, blocked \in BOOLEAN :
               edges' = saveEdge(edges, [edges[i] EXCEPT !.weight = weight,
                                                         !.blocked = blocked])
  /\ prevEdges' = edges
  /\ called' = "handleEdgeSelect"
  /\ UNCHANGED <<nodes, startId, endId, result>>

(* page.jsx:295-307, the confirmation accepted *)
handleClearGraph ==
  /\ Idle
  /\ nodes' = <<>>
  /\ edges' = <<>>
  /\ home' = edited([home EXCEPT !.ambulanceId = NULL, !.hospitalId = NULL,
                                 !.selectedNodeId = NULL, !.selectedEdgeId = NULL,
                                 !.routeResult = noRoute, !.nodeCounter = 1])
  /\ prevEdges' = edges
  /\ called' = "handleClearGraph"
  /\ UNCHANGED <<startId, endId, result>>

(* page.jsx:310-314, the confirmation accepted *)
handleResetToSample ==
  /\ Idle
  /\ LET loaded == initializeSampleGraph(home)
     IN /\ nodes' = loaded.nodes
        /\ edges' = loaded.edges
        /\ home' = edited(loaded.home)
  /\ prevEdges' = edges
  /\ called' = "handleResetToSample"
  /\ UNCHANGED <<startId, endId, result>>

(* part_004:200: the auto-detect switch *)
onAutoDetectChange ==
  /\ Idle
  /\ home' = edited([home EXCEPT !.autoDetectAlgorithm = ~@])
  /\ prevEdges' = edges
  /\ called' = "onAutoDetectChange"
  /\ UNCHANGED <<nodes, edges, startId, endId, result>>

(* part_004:272-296: the two algorithm buttons, shown without auto-detect *)
onAlgorithmChange ==
  /\ Idle
  /\ ~home.autoDetectAlgorithm
  /\ \E a \in {"dijkstra", "bellman-ford"} :
       home' = edited([home EXCEPT !.algorithm = a])
  /\ prevEdges' = edges
  /\ called' = "onAlgorithmChange"
  /\ UNCHANGED <<nodes, edges, startId, endId, result>>

NextEditor ==
  \/ mount
  \/ commitEffects
  \/ handleAddNode
  \/ handleAddEdge
  \/ handleDeleteNode
  \/ handleDeleteEdge
  \/ handleSetAmbulance
  \/ handleSetHospital
  \/ handleNodeSelect
  \/ handleEdgeSelect
  \/ handleClearGraph
  \/ handleResetToSample
  \/ onAutoDetectChange
  \/ onAlgorithmChange

SpecEditor == InitEditor /\ [][NextEditor]_vars

(***************************************************************************)
(* Properties of the editor.                                               *)
(***************************************************************************)
nodesOfType(type) == {i \in 1..Len(nodes) : nodes[i].type = type}

(* C21: after any sequence of editor operations at most one node has type  *)
(* 'ambulance' and at most one node has type 'hospital'.                   *)
C21_OneHolderPerRole ==
  /\ Cardinality(nodesOfType("ambulance")) <= 1
  /\ Cardinality(nodesOfType("hospital")) <= 1

(* the ambulance was just moved onto another node while a hospital is marked *)
C21_Witness ==
  /\ called = "handleSetAmbulance"
  /\ home.ambulanceId \notin {NULL, "A"}
  /\ \E i \in nodesOfType("ambulance") : nodes[i].id = home.ambulanceId
  /\ nodesOfType("hospital") # {}

(* C22: on the mounted page a node has type 'ambulance' exactly when its    *)
(* id is ambulanceId and type 'hospital' exactly when its id is            *)
(* hospitalId.                                                             *)
C22_MarkerFollowsDesignation ==
  home.mounted =>
    \A i \in 1..Len(nodes) :
      /\ nodes[i].type = "ambulance" <=> nodes[i].id = home.ambulanceId
      /\ nodes[i].type = "hospital" <=> nodes[i].id = home.hospitalId

(* C23: every edge joins two existing nodes, and ambulanceId and           *)
(* hospitalId are each null or the id of an existing node.                 *)
C23_ReferentialIntegrity ==
  /\ ValidRefs(nodes, edges)
  /\ home.ambulanceId \in {NULL} \cup NodeIdSet(nodes)
  /\ home.hospitalId \in {NULL} \cup NodeIdSet(nodes)

(* node A of the sample graph, the ambulance with two edges, was deleted *)
C23_Witness ==
  /\ called = "handleDeleteNode"
  /\ "A" \notin NodeIdSet(nodes) /\ "B" \in NodeIdSet(nodes)
  /\ Len(edges) = Len(prevEdges) - 2
  /\ home.ambulanceId = NULL /\ home.hospitalId = "F"

(* C24: no two edges join the same unordered pair, no edge joins a node to *)
(* itself, and Add Edge on a connected pair leaves the edge list as it was. *)
C24_NoDuplicateEdges ==
  /\ \A i \in 1..Len(edges) : edges[i].from # edges[i].to
  /\ \A i \in 1..Len(edges) : \A j \in (i + 1)..Len(edges) :
       {edges[i].from, edges[i].to} # {edges[j].from, edges[j].to}
  /\ (/\ called = "handleAddEdge"
      /\ edgeExists(prevEdges, nodes[Len(nodes)], nodes[Len(nodes) - 1]))
     => edges = prevEdges

(* Add Edge was pressed on a pair joined by a blocked edge only *)
C24_Witness ==
  /\ called = "handleAddEdge"
  /\ edges = prevEdges
  /\ \E i \in 1..Len(edges) :
       /\ edges[i].blocked
       /\ {edges[i].from, edges[i].to} = {nodes[Len(nodes)].id, nodes[Len(nodes) - 1].id}

(* the state the page should show for the current graph and selection *)
Settled ==
  /\ Flushed
  /\ home.autoDetectAlgorithm => home.algorithm = selectedAlgorithm(edges)
  /\ home.routeResult = routeOf(home, nodes, edges)

(* C25: whenever no effect is waiting the page shows the algorithm auto-   *)
(* detection selects and the result of that algorithm on the current       *)
(* graph and selection (null without both), and whenever an effect is      *)
(* waiting the page reaches such a state.                                  *)
C25_RecomputeLastWriteWins ==
  /\ [](Flushed => Settled)
  /\ [](~Flushed => <>Settled)

(* a toll was saved on the sample graph and Bellman-Ford's result is shown *)
C25_Witness ==
  /\ called = "handleEdgeSelect"
  /\ Settled
  /\ home.algorithm = "bellman-ford"
  /\ hasNegativeWeights(edges) /\ ~hasNegativeWeights(prevEdges)
  /\ home.routeResult = bellmanFord(nodes, edges, "A", "F")

(* React runs the first effects after the first render and the effects of  *)
(* every later render: weak fairness of mount and of commitEffects.  The   *)
(* latter is written out with the enabling condition of commitEffects,     *)
(* which is that the page is mounted and an effect is waiting.             *)
FairSpecEditor ==
  /\ SpecEditor
  /\ WF_vars(mount)
  /\ ([]<>~(home.mounted /\ ~Flushed) \/ []<><<commitEffects>>_vars)

(***************************************************************************)
(* C26. The two strategies agree on non-negative graphs: on a snapshot     *)
(* whose unblocked weights are all non-negative (every edge endpoint being *)
(* a node), for origin and destination two different nodes, dijkstra and   *)
(* bellmanFord return the same found flag and, when found, the same        *)
(* totalCost.                                                              *)
(***************************************************************************)
otherStrategy ==
  IF called = "dijkstra" THEN bellmanFord(nodes, edges, startId, endId)
  ELSE dijkstra(nodes, edges, startId, endId)

C26_StrategiesAgree ==
  (ProperCall /\ NonNegative(edges)) =>
     /\ ~Threw(result)
     /\ ~Threw(otherStrategy)
     /\ result.found = otherStrategy.found
     /\ result.found => result.totalCost = otherStrategy.totalCost

(* the two strategies return different routes of the same cost *)
C26_Witness ==
  /\ ProperCall /\ NonNegative(edges)
  /\ called = "dijkstra"
  /\ result.found
  /\ otherStrategy.found
  /\ otherStrategy.path # result.path
  /\ otherStrategy.totalCost = result.totalCost

(***************************************************************************)
(* C27. Stage order of the Hamiltonian analysis: for three or more nodes   *)
(* theoremApplied names the first conclusive stage in the order            *)
(* connectivity, Dirac, Ore, exhaustive search (at most 8 nodes),          *)
(* indeterminate fallback; the trace is numbered 1, 2, 3, ... without a    *)
(* gap and holds the checks of exactly the stages up to that one, so the   *)
(* exhaustive search is not run on a disconnected graph nor when Dirac's   *)
(* or Ore's condition holds.                                               *)
(***************************************************************************)
StageOrder == <<"Connectivity requirement", "Dirac's Theorem", "Ore's Theorem",
                "Backtracking Algorithm (Exhaustive Search)", "NP-completeness">>

FirstConclusiveStage(ns, es) ==
  IF ~ConnectedGraph(ns, es) THEN 1
  ELSE IF Dirac(ns, es) THEN 2
  ELSE IF Ore(ns, es) THEN 3
  ELSE IF Len(ns) <= 8 THEN 4
  ELSE 5

StepTitles(steps) == {steps[i].title : i \in 1..Len(steps)}

NoRepeat(path) == \A i, j \in 1..Len(path) : path[i] = path[j] => i = j

(* the relaxation state after k passes over the doubled edges *)
RECURSIVE AfterPasses(_, _, _)
AfterPasses(bes, k, st) ==
  IF k = 0 THEN st ELSE relaxPass(bes, 1, AfterPasses(bes, k - 1, st))

RelaxationBounded(ns, es, start) ==
  LET bes == bidirectional(es, 1)
      st0 == [distances |-> [v \in NodeIdSet(ns) |-> IF v = start THEN 0 ELSE Infinity],
              previous  |-> [v \in NodeIdSet(ns) |-> NULL],
              updated   |-> FALSE]
      final == relaxLoop(bes, 0, Len(ns), st0)
  IN \E k \in 0..(Len(ns) - 1) :
        final.distances = AfterPasses(bes, k, st0).distances

C28_Terminates ==
  (called # "none" /\ ValidRefs(nodes, edges)) =>
    /\ result # NoResult
    /\ ~Threw(result)
    /\ (called = "dijkstra" /\ result.found) =>
         /\ result.path[1] = startId
         /\ result.path[Len(result.path)] = endId
         /\ NoRepeat(result.path)
    /\ (called = "bellman-ford" /\ startId \in NodeIdSet(nodes)) =>
         RelaxationBounded(nodes, edges, startId)
    /\ called = "analyzeHamiltonian" => result.certainty \in {"definite", "unknown"}

(* dijkstra returned a route of three nodes where a negative cycle reaches *)
(* the destination                                                         *)
C28_Witness ==
  /\ ProperCall
  /\ called = "dijkstra"
  /\ NegativeCycleAffects(edges, startId, endId)
  /\ result.found
  /\ Len(result.path) = 3

(***************************************************************************)
(* C29. Every reachable negative edge is a negative cycle: when an         *)
(* unblocked edge of negative weight has an endpoint reachable from the    *)
(* origin, bellmanFord returns found = false with hasNegativeCycle = true  *)
(* for every other destination reachable from the origin; it returns       *)
(* found = true only when no such edge lies in the origin's component, and *)
(* never found = true together with hasNegativeCycle = true.               *)
(***************************************************************************)
NegativeInComponent(es, a) ==
  \E i \in NegativeEdges(es) : {es[i].from, es[i].to} \cap ReachSet(es, {a}) # {}

startEndVerticesOf(r) == IF Has(r, "startEndVertices") THEN r.startEndVertices ELSE <<>>

C30_EndpointsOnlyWithPath ==
  called = "analyzeEulerian" =>
    /\ ~Threw(result)
    /\ LET endpoints == startEndVerticesOf(result)
       IN /\ endpoints # <<>> <=> (result.hasEulerianPath /\ ~result.hasEulerianCircuit)
          /\ endpoints # <<>> =>
               {endpoints[1].start, endpoints[1].end} = OddNodes(nodes, edges)
          /\ ~ConnectedGraph(nodes, edges) => endpoints = <<>>

====
